---- MODULE Spec2Model ----
(***************************************************************************)
(* Model of the matching engine of dofus-deobfs:                           *)
(*   utils/mappings/enum.go            compareEnums                        *)
(*   utils/mappings/strictstructure.go FindStrictStructureBasedMatches,    *)
(*                                     compareMessageStructures and helpers *)
(*                                                                         *)
(* float64 confidences are modelled as exact fractions [n, d] in lowest    *)
(* terms; d = 0 stands for the NaN that 0.0/0.0 produces.  The scores are  *)
(* ratios of small counts, for which float64 rounding changes neither the  *)
(* test confidence == 100 nor the order of two confidences.                *)
(* A Go map[string]bool of names is modelled as the set of the names set   *)
(* to true.  The SourceFile strings copied into a match are left out.      *)
(***************************************************************************)
EXTENDS Integers, Sequences, FiniteSets, TLC

\* ------------------------------------------------------------------ bounds
MaxVals == 2
MaxObf == 2
MaxRef == 2
MaxEnumMatches == 1
MaxManyRef == 3
MaxManyObf == 3
MaxFields == 2
MaxFiles == 2
MaxLines == 7
MaxDepth == 2

\* ------------------------------------------------------------- arithmetic
RECURSIVE GCD(_, _)
GCD(a, b) == IF b = 0 THEN a ELSE GCD(b, a % b)

NaN == [n |-> 0, d |-> 0]

\* the float64 value n/d (n >= 0, d >= 0); 0/0 is NaN
Frac(n, d) == IF d = 0 THEN NaN ELSE [n |-> n \div GCD(n, d), d |-> d \div GCD(n, d)]

IsNaN(x) == x.d = 0
FracAdd(x, y) == IF IsNaN(x) \/ IsNaN(y) THEN NaN ELSE Frac(x.n * y.d + y.n * x.d, x.d * y.d)
FracMul(x, y) == IF IsNaN(x) \/ IsNaN(y) THEN NaN ELSE Frac(x.n * y.n, x.d * y.d)
FracDiv(x, y) == IF IsNaN(x) \/ IsNaN(y) \/ y.n = 0 THEN NaN ELSE Frac(x.n * y.d, x.d * y.n)
\* 1.0 - x, for 0 <= x <= 1
OneMinus(x) == IF IsNaN(x) THEN NaN ELSE Frac(x.d - x.n, x.d)
\* every comparison with NaN is false, as in Go
FracGeq(x, y) == ~IsNaN(x) /\ ~IsNaN(y) /\ x.n * y.d >= y.n * x.d
FracGt(x, y) == ~IsNaN(x) /\ ~IsNaN(y) /\ x.n * y.d > y.n * x.d
FracEq(x, y) == ~IsNaN(x) /\ ~IsNaN(y) /\ x.n * y.d = y.n * x.d
Int2F(k) == [n |-> k, d |-> 1]

Min(a, b) == IF a < b THEN a ELSE b
Max(a, b) == IF a > b THEN a ELSE b
Abs(a) == IF a < 0 THEN 0 - a ELSE a

Range(s) == {s[i] : i \in 1..Len(s)}
SeqsUpTo(S, k) == UNION {[1..m -> S] : m \in 0..k}

\* ------------------------------------------------------- float64 rounding
\* A natural number too wide for one machine integer is a sequence of limbs,
\* least significant first, each below LimbBase; <<>> is 0.
LimbBase == 2 ^ 13

RECURSIVE NatLimbs(_)
NatLimbs(n) == IF n = 0 THEN <<>> ELSE <<n % LimbBase>> \o NatLimbs(n \div LimbBase)

RECURSIVE StripLimbs(_)
StripLimbs(a) ==
    IF a # <<>> /\ a[Len(a)] = 0 THEN StripLimbs(SubSeq(a, 1, Len(a) - 1)) ELSE a

Zeros(k) == [i \in 1..k |-> 0]

\* a + b + carry
RECURSIVE LimbsAdd(_, _, _)
LimbsAdd(a, b, carry) ==
    IF a = <<>> /\ b = <<>> THEN NatLimbs(carry)
    ELSE LET s == (IF a = <<>> THEN 0 ELSE Head(a)) + (IF b = <<>> THEN 0 ELSE Head(b)) + carry
         IN <<s % LimbBase>>
              \o LimbsAdd(IF a = <<>> THEN a ELSE Tail(a), IF b = <<>> THEN b ELSE Tail(b),
                          s \div LimbBase)

\* a * k + carry, for k <= LimbBase
RECURSIVE LimbsMul(_, _, _)
LimbsMul(a, k, carry) ==
    IF a = <<>> THEN NatLimbs(carry)
    ELSE LET s == Head(a) * k + carry
         IN <<s % LimbBase>> \o LimbsMul(Tail(a), k, s \div LimbBase)

\* a divided by a small d: the quotient and the remainder
RECURSIVE LimbsDivRem(_, _)
LimbsDivRem(a, d) ==
    IF a = <<>> THEN [q |-> <<>>, r |-> 0]
    ELSE LET hi == LimbsDivRem(Tail(a), d)
             t == hi.r * LimbBase + Head(a)
         IN [q |-> <<t \div d>> \o hi.q, r |-> t % d]

LimbsDiv(a, d) ==
    LET res == LimbsDivRem(a, d) IN [q |-> StripLimbs(res.q), r |-> res.r]

\* the number of binary digits
RECURSIVE BitLen(_)
BitLen(n) == IF n = 0 THEN 0 ELSE 1 + BitLen(n \div 2)

LimbBits == BitLen(LimbBase) - 1

LimbsBitLen(a) ==
    IF a = <<>> THEN 0 ELSE LimbBits * (Len(a) - 1) + BitLen(a[Len(a)])

\* a * 2^k
ShiftLeft(a, k) ==
    IF a = <<>> THEN a
    ELSE StripLimbs(LimbsMul(Zeros(k \div LimbBits) \o a, 2 ^ (k % LimbBits), 0))

\* a \div 2^k, and whether a digit other than 0 was dropped
ShiftRight(a, k) ==
    LET whole == Min(k \div LimbBits, Len(a))
        res == LimbsDiv(SubSeq(a, whole + 1, Len(a)), 2 ^ (k % LimbBits))
    IN [q |-> res.q, sticky |-> res.r # 0 \/ \E i \in 1..whole : a[i] # 0]

\* the width of a float64 significand
MantissaBits == 53

\* a float64 is [m, e]: the value m * 2^e with m of exactly 53 binary digits,
\* or zero
F64Zero == [m |-> <<>>, e |-> 0]

\* the float64 nearest to (n / d) * 2^e, ties to even (IEEE 754 default
\* rounding): n is scaled so that the quotient has digits below the
\* significand, the quotient is cut to 53 digits, and the first digit cut off
\* (guard) and the rest (sticky) decide the rounding
RoundF64(n, d, e) ==
    IF n = <<>> THEN F64Zero
    ELSE LET scale == Max(0, MantissaBits + 2 + BitLen(d) - LimbsBitLen(n))
             div == LimbsDiv(ShiftLeft(n, scale), d)
             drop == LimbsBitLen(div.q) - MantissaBits
             low == ShiftRight(div.q, drop - 1)
             guard == low.q[1] % 2 = 1
             top == ShiftRight(low.q, 1).q
             sticky == low.sticky \/ div.r # 0
             up == guard /\ (sticky \/ top[1] % 2 = 1)
             m == IF up THEN StripLimbs(LimbsAdd(top, <<1>>, 0)) ELSE top
             expo == e - scale + drop
         IN IF LimbsBitLen(m) > MantissaBits
            THEN [m |-> ShiftRight(m, 1).q, e |-> expo + 1]
            ELSE [m |-> m, e |-> expo]

\* x + y for two non-negative float64 values
F64Add(x, y) ==
    IF x = F64Zero THEN y
    ELSE IF y = F64Zero THEN x
    ELSE LET e == Min(x.e, y.e)
         IN RoundF64(StripLimbs(LimbsAdd(ShiftLeft(x.m, x.e - e), ShiftLeft(y.m, y.e - e), 0)),
                     1, e)

\* x * float64(k) and x / float64(k) for a small positive integer k
F64MulInt(x, k) == RoundF64(StripLimbs(LimbsMul(x.m, k, 0)), 1, x.e)
F64DivInt(x, k) == RoundF64(x.m, k, x.e)

\* float64(n) for a small natural number n
F64OfNat(n) == RoundF64(NatLimbs(n), 1, 0)

\* x <= y for two non-negative float64 values
F64Leq(x, y) ==
    \/ x = F64Zero
    \/ /\ y # F64Zero
       /\ \/ x.e < y.e
          \/ /\ x.e = y.e
             /\ \/ x.m = y.m
                \/ \E i \in 1..Len(x.m) :
                      /\ x.m[i] < y.m[i]
                      /\ \A j \in (i + 1)..Len(x.m) : x.m[j] = y.m[j]

\* ------------------------------------------------------------ compareEnums
\* a Go map[string]int filled by ranging over the value list: a repeated name
\* keeps the number of its last occurrence
RECURSIVE valueMap(_)
valueMap(vals) ==
    IF vals = <<>> THEN <<>>
    ELSE LET init == valueMap(SubSeq(vals, 1, Len(vals) - 1))
             v == vals[Len(vals)]
         IN [name \in (DOMAIN init) \cup {v.Name} |->
                IF name = v.Name THEN v.Number ELSE init[name]]

matchingValuesNameOnly(obfsMap, unobsMap) ==
    Cardinality({name \in DOMAIN obfsMap : name \in DOMAIN unobsMap})

matchingValues(obfsMap, unobsMap) ==
    Cardinality({name \in DOMAIN obfsMap :
                    name \in DOMAIN unobsMap /\ unobsMap[name] = obfsMap[name]})

smallerSizeObfsOnly(obfsMap, unobsMap) == Cardinality(DOMAIN obfsMap)

smallerSize(obfsMap, unobsMap) ==
    IF Cardinality(DOMAIN unobsMap) < Cardinality(DOMAIN obfsMap)
    THEN Cardinality(DOMAIN unobsMap)
    ELSE Cardinality(DOMAIN obfsMap)

compareEnums(obfs, unobfs) ==
    LET obfsMap == valueMap(obfs.Value)
        unobsMap == valueMap(unobfs.Value)
        matching == matchingValues(obfsMap, unobsMap)
    IN IF matching = smallerSize(obfsMap, unobsMap)
       THEN [isMatch |-> TRUE,
             confidence |->
                FracMul(Frac(matching,
                             Max(Cardinality(DOMAIN obfsMap), Cardinality(DOMAIN unobsMap))),
                        Int2F(100))]
       ELSE [isMatch |-> FALSE, confidence |-> Int2F(0)]

\* ------------------------------------------------- compareMessageStructures
primitiveTypes ==
    [k \in {"int32", "int64", "string", "bool"} |-> {k}]

compareTypesByEquality(obfsType, unobsType) == obfsType = unobsType

compareTypes(obfsType, unobsType) ==
    \E k \in DOMAIN primitiveTypes :
        obfsType \in primitiveTypes[k] /\ unobsType \in primitiveTypes[k]

compareFieldsIgnoringLabel(obfs, unobs) == compareTypes(obfs.Type, unobs.Type)

compareFields(obfs, unobs) ==
    IF obfs.Label # unobs.Label THEN FALSE
    ELSE compareTypes(obfs.Type, unobs.Type)

\* OneOfIndex is <<>> for a nil pointer and <<i>> for a pointer to i
RECURSIVE oneofFieldsOf(_, _)
oneofFieldsOf(fields, oneofIndex) ==
    IF fields = <<>> THEN <<>>
    ELSE LET field == Head(fields)
             rest == oneofFieldsOf(Tail(fields), oneofIndex)
         IN IF field.OneOfIndex = <<oneofIndex>> THEN <<field>> \o rest ELSE rest

getOneofFields(msg, oneofIndex) == oneofFieldsOf(msg.Field, oneofIndex)

compareOneofFieldsOverObfs(obfsFields, unobsFields) ==
    IF Len(obfsFields) = 0 \/ Len(unobsFields) = 0 THEN Int2F(0)
    ELSE Frac(Cardinality({i \in 1..Len(obfsFields) :
                    \E j \in 1..Len(unobsFields) :
                        compareFields(obfsFields[i], unobsFields[j])}),
              Len(obfsFields))

compareOneofFields(obfsFields, unobsFields) ==
    IF Len(obfsFields) = 0 \/ Len(unobsFields) = 0 THEN Int2F(0)
    ELSE LET matchingFields ==
                Cardinality({i \in 1..Len(obfsFields) :
                    \E j \in 1..Len(unobsFields) :
                        compareFields(obfsFields[i], unobsFields[j])})
         IN Frac(matchingFields, Max(Len(obfsFields), Len(unobsFields)))

\* a count score that accepts a first count below the second
countScoreAtMost(a, b) == IF a <= b THEN Int2F(1) ELSE OneMinus(Frac(a - b, a))

\* 1.0 - |a - b| / max(a, b)
countScore(a, b) == OneMinus(Frac(Abs(a - b), Max(a, b)))

\* the loop over the aligned oneof slots 0 .. k-1: the sum of the slot scores
RECURSIVE oneofSlotScores(_, _, _)
oneofSlotScores(obfs, unobs, k) ==
    IF k = 0 THEN Int2F(0)
    ELSE FracAdd(oneofSlotScores(obfs, unobs, k - 1),
                 compareOneofFields(getOneofFields(obfs, k - 1),
                                    getOneofFields(unobs, k - 1)))

eitherHasNoFieldsObfsOnly(obfs, unobs) == Len(obfs.Field) = 0

eitherHasNoFields(obfs, unobs) == Len(obfs.Field) = 0 \/ Len(unobs.Field) = 0

compareMessageStructures(obfs, unobs) ==
    IF eitherHasNoFields(obfs, unobs)
    THEN [isMatch |-> FALSE, confidence |-> Int2F(0)]
    ELSE
    LET nF == Len(obfs.Field)
        mF == Len(unobs.Field)
        fieldCountScore == countScore(nF, mF)
        maxFields == Min(nF, mF)
        matchingFields ==
            Cardinality({i \in 1..maxFields : compareFields(obfs.Field[i], unobs.Field[i])})
        hasFieldCheck == maxFields > 0
        fieldTypeScore == IF hasFieldCheck THEN Frac(matchingFields, maxFields) ELSE Int2F(0)
        nO == Len(obfs.OneOfDecl)
        mO == Len(unobs.OneOfDecl)
        hasOneof == nO > 0 \/ mO > 0
        oneofScore ==
            IF hasOneof
            THEN FracAdd(countScore(nO, mO), oneofSlotScores(obfs, unobs, Min(nO, mO)))
            ELSE Int2F(0)
        nN == Len(obfs.NestedType)
        mN == Len(unobs.NestedType)
        hasNested == nN > 0 \/ mN > 0
        nestedScore == IF hasNested THEN countScore(nN, mN) ELSE Int2F(0)
        matchScore ==
            FracAdd(FracAdd(fieldCountScore, fieldTypeScore), FracAdd(oneofScore, nestedScore))
        totalChecks ==
            1 + (IF hasFieldCheck THEN 1 ELSE 0)
              + (IF hasOneof THEN 1 + Min(nO, mO) ELSE 0)
              + (IF hasNested THEN 1 ELSE 0)
        confidence == FracMul(FracDiv(matchScore, Int2F(totalChecks)), Int2F(100))
    IN [isMatch |-> FracGeq(confidence, Int2F(80)), confidence |-> confidence]

isPerfectStructureMatchAnyMatch(obfs, unobs) ==
    compareMessageStructures(obfs, unobs).isMatch

isPerfectStructureMatch(obfs, unobs) ==
    LET res == compareMessageStructures(obfs, unobs)
    IN res.isMatch /\ FracEq(res.confidence, Int2F(100))

\* ----------------------------------------- FindStrictStructureBasedMatches
\* lines 25-28: the names the enum matches mark as already matched
markObfuscated(ems) == {ems[i].ObfuscatedMsg : i \in DOMAIN ems}

markUnobfuscatedNone(ems) == {}

markUnobfuscated(ems) == {ems[i].OriginalMsg : i \in DOMAIN ems}

\* the unmarked messages, last declared first
selectUnmatchedReversed(msgs, matched) ==
    LET kept == SelectSeq(msgs, LAMBDA msg : msg.Name \notin matched)
    IN [i \in 1..Len(kept) |-> kept[Len(kept) + 1 - i]]

\* lines 34-43 and 109-124: the messages whose name is not marked
RECURSIVE selectUnmatched(_, _)
selectUnmatched(msgs, matched) ==
    IF msgs = <<>> THEN <<>>
    ELSE LET msg == Head(msgs)
             rest == selectUnmatched(Tail(msgs), matched)
         IN IF msg.Name \notin matched THEN <<msg>> \o rest ELSE rest

\* lines 65-75: the perfect matches among the reference messages not yet marked
RECURSIVE findCandidatesIgnoringMarks(_, _, _)
findCandidatesIgnoringMarks(obsMsg, pool, matchedNames) ==
    IF pool = <<>> THEN <<>>
    ELSE LET unobsMsg == Head(pool)
             rest == findCandidatesIgnoringMarks(obsMsg, Tail(pool), matchedNames)
         IN IF isPerfectStructureMatch(obsMsg, unobsMsg) THEN <<unobsMsg>> \o rest ELSE rest

RECURSIVE findCandidates(_, _, _)
findCandidates(obsMsg, pool, matchedNames) ==
    IF pool = <<>> THEN <<>>
    ELSE LET unobsMsg == Head(pool)
             rest == findCandidates(obsMsg, Tail(pool), matchedNames)
         IN IF unobsMsg.Name \in matchedNames THEN rest
            ELSE IF isPerfectStructureMatch(obsMsg, unobsMsg) THEN <<unobsMsg>> \o rest
            ELSE rest

\* line 78
acceptCandidatesAtLeastOne(candidates) == Len(candidates) >= 1

acceptCandidates(candidates) == Len(candidates) = 1

\* lines 53 and 103: the flag after one obfuscated message has been examined
changedAfterAlways(changed, accepted) == TRUE

changedAfter(changed, accepted) == changed \/ accepted

\* ---------------------------------------------------- FindEnumBasedMatches
\* A dotted path "Msg.Nested.Enum" is modelled as the sequence of its names,
\* and the Go map from paths to enums as a function on paths: an assignment to
\* a key already present replaces the entry.
RECURSIVE directEnums(_, _)
directEnums(enums, path) ==
    IF enums = <<>> THEN <<>>
    ELSE LET init == directEnums(SubSeq(enums, 1, Len(enums) - 1), path)
             enum == enums[Len(enums)]
             key == Append(path, enum.Name)
         IN [k \in (DOMAIN init) \cup {key} |-> IF k = key THEN enum ELSE init[k]]

\* lines 191-200: the enums of the first k nested messages, copied in turn
RECURSIVE getAllEnums(_, _)
RECURSIVE nestedEnums(_, _, _)
nestedEnums(msg, path, k) ==
    IF k = 0 THEN <<>>
    ELSE LET init == nestedEnums(msg, path, k - 1)
             nested == msg.NestedType[k]
             more == getAllEnums(nested, Append(path, nested.Name))
         IN [key \in (DOMAIN init) \cup (DOMAIN more) |->
                IF key \in DOMAIN more THEN more[key] ELSE init[key]]

getAllEnumsDirectOnly(msg, parentPath) ==
    directEnums(msg.EnumType, IF parentPath = <<>> THEN <<msg.Name>> ELSE parentPath)

getAllEnums(msg, parentPath) ==
    LET path == IF parentPath = <<>> THEN <<msg.Name>> ELSE parentPath
        direct == directEnums(msg.EnumType, path)
        nested == nestedEnums(msg, path, Len(msg.NestedType))
    IN [key \in (DOMAIN direct) \cup (DOMAIN nested) |->
            IF key \in DOMAIN nested THEN nested[key] ELSE direct[key]]

\* fmt.Sprintf("%s=%d", v.Name, v.Number) for each value
formatEnumValues(values) ==
    [i \in DOMAIN values |-> <<values[i].Name, "=", values[i].Number>>]

EnumMatch(obfsPath, unobsPath, values, confidence) ==
    [ObfuscatedEnum |-> obfsPath, OriginalEnum |-> unobsPath, Values |-> values,
     Confidence |-> confidence]

\* the orders in which a range over a Go map can visit its keys
IterationOrders(keys) ==
    {order \in [1..Cardinality(keys) -> keys] :
        \A i, j \in DOMAIN order : order[i] = order[j] => i = j}

\* line 53
betterThanBest(confidence, bestConfidence) == FracGt(confidence, bestConfidence)

\* lines 43-70: the inner range, over the first k keys of the visiting order
RECURSIVE scanUnobsEnums(_, _, _, _, _)
scanUnobsEnums(obfsPath, obfsEnum, unobsEnums, order, k) ==
    IF k = 0
    THEN [matched |-> FALSE, bestMatch |-> EnumMatch(<<>>, <<>>, <<>>, Int2F(0)),
          bestConfidence |-> Int2F(0)]
    ELSE LET prev == scanUnobsEnums(obfsPath, obfsEnum, unobsEnums, order, k - 1)
             unobsPath == order[k]
             res == compareEnums(obfsEnum, unobsEnums[unobsPath])
         IN IF res.isMatch /\ betterThanBest(res.confidence, prev.bestConfidence)
            THEN [matched |-> TRUE,
                  bestMatch |-> EnumMatch(obfsPath, unobsPath,
                                          formatEnumValues(obfsEnum.Value), res.confidence),
                  bestConfidence |-> res.confidence]
            ELSE prev

\* lines 38-77: the outer range, over the first k keys of its visiting order;
\* best[obfsPath] is what the inner range started for obfsPath ended with
RECURSIVE scanObfsEnums(_, _, _)
scanObfsEnums(best, outer, k) ==
    IF k = 0 THEN [enumMatches |-> <<>>, allEnumsMatched |-> TRUE]
    ELSE LET prev == scanObfsEnums(best, outer, k - 1)
             obfsPath == outer[k]
         IN IF best[obfsPath].matched
            THEN [enumMatches |-> Append(prev.enumMatches, best[obfsPath].bestMatch),
                  allEnumsMatched |-> prev.allEnumsMatched]
            ELSE [enumMatches |-> prev.enumMatches, allEnumsMatched |-> FALSE]

\* enum.go line 170 computes float64(matching) / float64(max) * 100: the
\* float64 that the exact confidence c stands for
float64Of(c) == F64MulInt(RoundF64(NatLimbs(c.n), 100 * c.d, 0), 100)

\* lines 82-85: the float64 sum of the first k confidences, in list order
RECURSIVE totalConfidence(_, _)
totalConfidence(confidences, k) ==
    IF k = 0 THEN F64Zero
    ELSE F64Add(totalConfidence(confidences, k - 1), float64Of(confidences[k]))

candidatesNotYetMatched(unobfuscated, found) ==
    SelectSeq(unobfuscated.MessageType,
              LAMBDA msg : \A i \in DOMAIN found : found[i].OriginalMsg # msg.Name)

\* line 35: the range over the reference messages, whatever was matched before
candidatesOf(unobfuscated, found) == unobfuscated.MessageType

\* line 80
acceptScanAnyMatched(scan) == Len(scan.enumMatches) > 0

acceptScan(scan) == scan.allEnumsMatched /\ Len(scan.enumMatches) > 0

\* ----------------------------------------------------------------- inputs
EnumValueNames == {"A", "B"}
EnumValueNumbers == {0, 1}
EnumValues == [Name : EnumValueNames, Number : EnumValueNumbers]
EnumTypes == [Name : {"E"}, Value : SeqsUpTo(EnumValues, MaxVals)]

NoResult == [isMatch |-> FALSE, confidence |-> Int2F(0)]

NoOneof == <<>>
InOneof(i) == <<i>>
Fld(name, number, label, type, oneof) ==
    [Name |-> name, Number |-> number, Label |-> label, Type |-> type, OneOfIndex |-> oneof]
Msg(name, fields, nested, enums, oneofs) ==
    [Name |-> name, Field |-> fields, NestedType |-> nested, EnumType |-> enums,
     OneOfDecl |-> oneofs]

AnEnum == [Name |-> "E", Value |-> <<[Name |-> "A", Number |-> 0], [Name |-> "B", Number |-> 1]>>]
ANested == Msg("Inner", <<Fld("v", 1, "", "int32", NoOneof)>>, <<>>, <<>>, <<>>)
AOneof == [Name |-> "kind"]

\* [string a = 1; int32 b = 2]
PlainMsg(name) ==
    Msg(name, <<Fld("a", 1, "", "string", NoOneof), Fld("b", 2, "", "int32", NoOneof)>>,
        <<>>, <<>>, <<>>)
\* oneof kind { int32 a = 1; int32 b = 2; }
WideOneofMsg(name) ==
    Msg(name, <<Fld("a", 1, "", "int32", InOneof(0)), Fld("b", 2, "", "int32", InOneof(0))>>,
        <<>>, <<>>, <<AOneof>>)
\* oneof kind { int32 a = 1; } int32 b = 2;
NarrowOneofMsg(name) ==
    Msg(name, <<Fld("a", 1, "", "int32", InOneof(0)), Fld("b", 2, "", "int32", NoOneof)>>,
        <<>>, <<>>, <<AOneof>>)
\* no field, but a oneof, a nested message and an enum
FieldlessMsg(name) == Msg(name, <<>>, <<ANested>>, <<AnEnum>>, <<AOneof>>)

ObfMsgs ==
    {PlainMsg("Iqe"), PlainMsg("Jxa"), WideOneofMsg("Iqe"), NarrowOneofMsg("Jxa"),
     FieldlessMsg("Jxa")}
RefMsgs ==
    {PlainMsg("CraftResult"), PlainMsg("Ping"), WideOneofMsg("CraftResult"),
     NarrowOneofMsg("Ping"), FieldlessMsg("Ping")}

\* [Inner x = 1; int32 b = 2]: a field of a message type
CompositeMsg(name) ==
    Msg(name, <<Fld("x", 1, "", "Inner", NoOneof), Fld("b", 2, "", "int32", NoOneof)>>,
        <<>>, <<>>, <<>>)

\* descriptors put together from several files: two reference messages of
\* different files have the name CraftResult
ManyObfMsgs ==
    {PlainMsg("Jxa"), PlainMsg("Lmo"), WideOneofMsg("Iqe"), CompositeMsg("Kzu")}
ManyRefMsgs ==
    {PlainMsg("CraftResult"), PlainMsg("Ping"), WideOneofMsg("CraftResult"),
     CompositeMsg("Move")}

MessageMatch(obs, orig, percent) ==
    [ObfuscatedMsg |-> obs, OriginalMsg |-> orig, MatchPercent |-> percent, EnumMatches |-> <<>>]
EnumMatchPool ==
    {MessageMatch("Iqe", "CraftResult", Int2F(100)), MessageMatch("Jxa", "Ping", Int2F(50)),
     MessageMatch("Jxa", "CraftResult", Int2F(100))}

\* the messages given to FindEnumBasedMatches: enum value lists of zero to
\* three values, enums declared in the message and in a nested message
ValuesNone == <<>>
ValuesA == <<[Name |-> "A", Number |-> 0]>>
ValuesABC ==
    <<[Name |-> "A", Number |-> 0], [Name |-> "B", Number |-> 1], [Name |-> "C", Number |-> 2]>>
ValuesX == <<[Name |-> "X", Number |-> 5]>>
Enum(name, values) == [Name |-> name, Value |-> values]
InnerWith(enums) == Msg("Inner", <<>>, <<>>, enums, <<>>)

EnumObfMsgs ==
    {PlainMsg("Iqe"),
     Msg("Jxa", <<>>, <<>>, <<Enum("E", ValuesA)>>, <<>>),
     Msg("Kzu", <<>>, <<>>, <<Enum("E", ValuesNone)>>, <<>>),
     Msg("Lwo", <<>>, <<InnerWith(<<Enum("G", ValuesX)>>)>>,
         <<Enum("E", ValuesA), Enum("F", ValuesA)>>, <<>>)}
EnumRefMsgs ==
    {Msg("Ping", <<>>, <<>>, <<Enum("E", ValuesABC), Enum("F", ValuesA)>>, <<>>),
     Msg("CraftResult", <<>>, <<InnerWith(<<Enum("G", ValuesX)>>)>>,
         <<Enum("E", ValuesABC)>>, <<>>),
     Msg("Move", <<>>, <<>>, <<Enum("E", ValuesA), Enum("F", ValuesA)>>, <<>>)}

\* every enum of a message and of its nested messages
RECURSIVE EnumsIn(_)
EnumsIn(msg) ==
    Range(msg.EnumType) \cup UNION {EnumsIn(msg.NestedType[i]) : i \in DOMAIN msg.NestedType}

RECURSIVE SetMax(_)
SetMax(S) == IF S = {} THEN 0 ELSE LET x == CHOOSE x \in S : TRUE IN Max(x, SetMax(S \ {x}))

\* the confidences compareEnums can return on these messages, and the lists
\* of them FindEnumBasedMatches can collect for one message
EnumConfidences ==
    {compareEnums(a, b).confidence :
        a \in UNION {EnumsIn(m) : m \in EnumObfMsgs}, b \in UNION {EnumsIn(m) : m \in EnumRefMsgs}}
EnumConfidenceLists ==
    SeqsUpTo({c \in EnumConfidences : FracGt(c, Int2F(0))},
             SetMax({Cardinality(EnumsIn(m)) : m \in EnumObfMsgs}))

\* line 86, tabulated for each list of confidences: the float64 total divided
\* by float64(len)
averageConfidenceOf ==
    {<<confidences,
       F64DivInt(totalConfidence(confidences, Len(confidences)), Len(confidences))>> :
        confidences \in EnumConfidenceLists}

firstConfidence(confidences) == float64Of(confidences[1])

averageConfidence(confidences) ==
    (CHOOSE entry \in averageConfidenceOf : entry[1] = confidences)[2]

\* ------------------------------------------------------------------- main
\* a directory is missing, unreadable or present, and holds for every file
\* name the state of the file of that name
FileNames == 1..MaxFiles
NoError == "nil"
NoFiles == [n \in FileNames |-> "absent"]
NoDir(state) == [state |-> state, files |-> NoFiles]
Dir(files) == [state |-> "present", files |-> files]

HasEntries(dir) == \E n \in FileNames : dir.files[n] # "absent"

\* copyFile of every .proto file of the source directory that
\* shouldIncludeFile accepts; a failed copy is printed and skipped
copyIncluded(src, dst) ==
    IF dst.state # "present" THEN dst
    ELSE Dir([n \in FileNames |->
                 IF src.files[n] = "interesting" /\ dst.files[n] # "unreadable"
                 THEN "readable"
                 ELSE dst.files[n]])

FilterProtoFiles(src, dst) ==
    IF src.state = "missing" THEN [err |-> "does not exist", out |-> dst]
    ELSE IF src.state = "unreadable"
    THEN [err |-> "error reading source directory", out |-> dst]
    ELSE IF ~HasEntries(src) THEN [err |-> "is empty", out |-> dst]
    ELSE [err |-> NoError, out |-> copyIncluded(src, dst)]

\* the descriptor is kept as the set of the files whose messages it holds
LoadAndParseProtos(dir) ==
    IF dir.state # "present" THEN [desc |-> {}, err |-> "walk"]
    ELSE IF \E n \in FileNames : dir.files[n] = "unreadable"
    THEN [desc |-> {}, err |-> "read"]
    ELSE [desc |-> {n \in FileNames : dir.files[n] = "readable"}, err |-> NoError]

exitsAfterNever(err) == FALSE

\* main exits with status 1 when LoadAndParseProtos returned an error
exitsAfter(err) == err # NoError

SourceDirs ==
    {NoDir("missing"), NoDir("unreadable")}
        \cup {Dir(files) :
                files \in [FileNames -> {"absent", "interesting", "other", "unreadable"}]}
LoadedDirs ==
    {NoDir("missing")}
        \cup {Dir(files) : files \in [FileNames -> {"absent", "readable", "unreadable"}]}

\* ----------------------------------------------------------- ParseProtoFile
\* a nil *MessageType and a nil *EnumType
NilMsg == 0
NilEnum == <<>>

\* the closing brace, lines 150-165: the enum, the oneof or the message that
\* the parser closes
closes(curEnum, curOneof, curMsg, parents, level) ==
    IF curEnum # NilEnum THEN "enum"
    ELSE IF curOneof # NoOneof /\ level = 1 THEN "oneof"
    ELSE IF curMsg # NilMsg
    THEN (IF Len(parents) > 0 THEN "pop" ELSE IF level = 0 THEN "top" ELSE "none")
    ELSE "none"

\* the messages given to getAllEnums: up to MaxDepth levels of nested
\* messages, one or two nested messages per message (the second a copy of
\* the first under another or under the same name), and up to two enums per
\* message, of different names or of the same name
EnumLists ==
    {<<>>, <<Enum("E", ValuesA)>>, <<Enum("E", ValuesA), Enum("F", ValuesX)>>,
     <<Enum("E", ValuesA), Enum("E", ValuesX)>>}
RECURSIVE EnumTrees(_, _)
EnumTrees(name, depth) ==
    {Msg(name, <<>>, nested, enums, <<>>) :
        enums \in EnumLists,
        nested \in
            IF depth = 0 THEN {<<>>}
            ELSE {<<>>}
                    \cup {<<t>> : t \in EnumTrees("Inner", depth - 1)}
                    \cup {<<t, [t EXCEPT !.Name = "Other"]>> : t \in EnumTrees("Inner", depth - 1)}
                    \cup {<<t, t>> : t \in EnumTrees("Inner", depth - 1)}}

\* the fields given to compareFields
FieldPool ==
    [Name : {"a", "b"}, Number : {1, 2}, Label : {"", "repeated"},
     Type : {"int32", "int64", "string", "bool", "Inner"},
     OneOfIndex : {NoOneof, InOneof(0)}]

\* the messages given to compareMessageStructures: up to MaxFields fields,
\* in no oneof or in the first or the second one, up to two oneofs, and no
\* or one nested message
StructFields ==
    {Fld("f", 1, "", "int32", NoOneof), Fld("f", 1, "", "int32", InOneof(0)),
     Fld("f", 1, "", "string", InOneof(0)), Fld("f", 1, "", "int32", InOneof(1))}
StructMsgs ==
    {Msg("M", fields, nested, <<>>, oneofs) :
        fields \in SeqsUpTo(StructFields, MaxFields),
        nested \in {<<>>, <<ANested>>},
        oneofs \in {<<>>, <<AOneof>>, <<AOneof, [Name |-> "other"]>>}}

\* sequences without a repeated element
InjSeqsUpTo(S, k) ==
    {s \in SeqsUpTo(S, k) : \A i, j \in 1..Len(s) : s[i] = s[j] => i = j}

VARIABLES
    \* compareEnums called on a pair and on the swapped pair
    enumA, enumB, enumRes, enumSwapRes, enumPc,
    \* the arguments of FindStrictStructureBasedMatches
    obfuscated, unobfuscated, enumMatches,
    \* its locals
    matches, matchedObfuscated, matchedUnobfuscated, unmatchedObs, unmatchedUnobs,
    startingUnmatched, somethingChanged, passes, newlyMatchedObs, obsIdx, pc,
    \* history: the call number, the first call's enumMatches and result, the last
    \* message examined with its candidate list, the matched message pairs, and
    \* the size of matchedObfuscated and of matches when the pass began
    run, firstEnumMatches, firstMatches, examined, candidates, pairs,
    passStartMatched, passStartMatches

VARIABLES
    \* the arguments of FindEnumBasedMatches, its result, and the positions of
    \* its two loops over the messages
    emObfuscated, emUnobfuscated, emMatches, emObsIdx, emUnobsIdx, emPc,
    \* history: the call number, whether this call has the reference messages
    \* in reverse order, the first call's match set, the last candidate tried
    \* with the verdict, and the positions of the matched messages
    emRun, emReversed, emFirstMatches, emTried, emPairs

VARIABLES
    \* compareFields called on a pair of fields
    fieldA, fieldB, fieldRes, fieldPc,
    \* compareMessageStructures called on a pair of messages
    structA, structB, structRes, structPc

VARIABLES
    \* the directories protos/decompiled, protos/filtered and protos/clear
    srcDir, filteredDir, clearDir,
    \* main: the errors returned to it, the descriptors it loaded, the
    \* matchers it has invoked, its position and its exit code
    filterErr, obfuscatedErr, unobfuscatedErr, mainObfuscated, mainUnobfuscated,
    mainInvoked, mainPc, exitCode

VARIABLES
    \* ParseProtoFile: the descriptor (its messages are kept in a table and
    \* named by their position in it, which stands for a pointer to them)
    \* and the locals of the loop over the lines
    desc, messages, currentMsg, currentEnum, currentOneofIndex, parentMsgs, nestLevel,
    \* the text read so far: the blocks that are open, the number of lines,
    \* and for every message and every field line where the text has it
    context, lineNo, textParent, textFields

VARIABLES
    \* getAllEnums called on the message of a descriptor, and its result
    treeDesc, treeEnums, treePc

enumVars == <<enumA, enumB, enumRes, enumSwapRes, enumPc>>
treeVars == <<treeDesc, treeEnums, treePc>>
parseVars ==
    <<desc, messages, currentMsg, currentEnum, currentOneofIndex, parentMsgs, nestLevel,
      context, lineNo, textParent, textFields>>
mainVars ==
    <<srcDir, filteredDir, clearDir, filterErr, obfuscatedErr, unobfuscatedErr,
      mainObfuscated, mainUnobfuscated, mainInvoked, mainPc, exitCode>>
fieldVars == <<fieldA, fieldB, fieldRes, fieldPc>>
structVars == <<structA, structB, structRes, structPc>>
emVars ==
    <<emObfuscated, emUnobfuscated, emMatches, emObsIdx, emUnobsIdx, emPc,
      emRun, emReversed, emFirstMatches, emTried, emPairs>>
afterParseVars == <<treeVars>>
afterMainVars == <<parseVars, afterParseVars>>
afterStructVars == <<mainVars, afterMainVars>>
afterFieldVars == <<structVars, afterStructVars>>
afterEmVars == <<fieldVars, afterFieldVars>>
laterVars == <<emVars, afterEmVars>>
argVars == <<obfuscated, unobfuscated, enumMatches>>
localVars ==
    <<matches, matchedObfuscated, matchedUnobfuscated, unmatchedObs, unmatchedUnobs,
      startingUnmatched, somethingChanged, passes, newlyMatchedObs, obsIdx, pc>>
histVars ==
    <<run, firstEnumMatches, firstMatches, examined, candidates, pairs,
      passStartMatched, passStartMatches>>
matcherVars == <<argVars, localVars, histVars>>
vars == <<enumVars, matcherVars, laterVars>>
emOthers == <<enumVars, matcherVars, afterEmVars>>
fieldOthers == <<enumVars, matcherVars, emVars, afterFieldVars>>
structOthers == <<enumVars, matcherVars, emVars, fieldVars, afterStructVars>>
mainOthers == <<enumVars, matcherVars, emVars, fieldVars, structVars, afterMainVars>>
parseOthers ==
    <<enumVars, matcherVars, emVars, fieldVars, structVars, mainVars, afterParseVars>>
treeOthers == <<enumVars, matcherVars, emVars, fieldVars, structVars, mainVars, parseVars>>

EnumsIdle ==
    /\ enumA = [Name |-> "E", Value |-> <<>>]
    /\ enumB = [Name |-> "E", Value |-> <<>>]
    /\ enumRes = NoResult
    /\ enumSwapRes = NoResult
    /\ enumPc = "idle"

LocalsAtCall ==
    /\ matches = <<>>
    /\ matchedObfuscated = {}
    /\ matchedUnobfuscated = {}
    /\ unmatchedObs = <<>>
    /\ unmatchedUnobs = <<>>
    /\ startingUnmatched = 0
    /\ somethingChanged = FALSE
    /\ passes = 0
    /\ newlyMatchedObs = <<>>
    /\ obsIdx = 0
    /\ examined = <<>>
    /\ candidates = <<>>
    /\ pairs = <<>>
    /\ passStartMatched = 0
    /\ passStartMatches = 0

MatcherIdle ==
    /\ obfuscated = [MessageType |-> <<>>]
    /\ unobfuscated = [MessageType |-> <<>>]
    /\ enumMatches = <<>>
    /\ LocalsAtCall
    /\ pc = "idle"
    /\ run = 0
    /\ firstEnumMatches = <<>>
    /\ firstMatches = <<>>

EnumMatcherIdle ==
    /\ emObfuscated = [MessageType |-> <<>>]
    /\ emUnobfuscated = [MessageType |-> <<>>]
    /\ emMatches = <<>>
    /\ emObsIdx = 0
    /\ emUnobsIdx = 0
    /\ emPc = "idle"
    /\ emRun = 0
    /\ emReversed = FALSE
    /\ emFirstMatches = {}
    /\ emTried = <<>>
    /\ emPairs = <<>>

FieldsIdle ==
    /\ fieldA = Fld("a", 1, "", "int32", NoOneof)
    /\ fieldB = Fld("a", 1, "", "int32", NoOneof)
    /\ fieldRes = FALSE
    /\ fieldPc = "idle"

StructIdle ==
    /\ structA = Msg("M", <<>>, <<>>, <<>>, <<>>)
    /\ structB = Msg("M", <<>>, <<>>, <<>>, <<>>)
    /\ structRes = NoResult
    /\ structPc = "idle"

MainIdle ==
    /\ srcDir = NoDir("missing")
    /\ filteredDir = NoDir("missing")
    /\ clearDir = NoDir("missing")
    /\ filterErr = NoError
    /\ obfuscatedErr = NoError
    /\ unobfuscatedErr = NoError
    /\ mainObfuscated = {}
    /\ mainUnobfuscated = {}
    /\ mainInvoked = {}
    /\ mainPc = "idle"
    /\ exitCode = 0

\* lines 130-135: the empty descriptor and the zero values of the locals
ParseStart ==
    /\ desc = [MessageType |-> <<>>, EnumType |-> <<>>]
    /\ messages = <<>>
    /\ currentMsg = NilMsg
    /\ currentEnum = NilEnum
    /\ currentOneofIndex = NoOneof
    /\ parentMsgs = <<>>
    /\ nestLevel = 0
    /\ context = <<>>
    /\ lineNo = 0
    /\ textParent = <<>>
    /\ textFields = <<>>

TreeIdle ==
    /\ treeDesc = [MessageType |-> <<>>, EnumType |-> <<>>]
    /\ treeEnums = <<>>
    /\ treePc = "idle"

LaterIdle ==
    EnumMatcherIdle /\ FieldsIdle /\ StructIdle /\ MainIdle /\ ParseStart /\ TreeIdle

\* ------------------------------------------------------ compareEnums calls
InitEnums ==
    /\ enumA \in EnumTypes
    /\ enumB \in EnumTypes
    /\ enumRes = NoResult
    /\ enumSwapRes = NoResult
    /\ enumPc = "start"
    /\ MatcherIdle
    /\ LaterIdle

\* compareEnums(A, B)
CompareEnumsAB ==
    /\ enumPc = "start"
    /\ enumRes' = compareEnums(enumA, enumB)
    /\ enumPc' = "compared"
    /\ UNCHANGED <<enumA, enumB, enumSwapRes, matcherVars, laterVars>>

\* compareEnums(B, A)
CompareEnumsBA ==
    /\ enumPc = "compared"
    /\ enumSwapRes' = compareEnums(enumB, enumA)
    /\ enumPc' = "swapped"
    /\ UNCHANGED <<enumA, enumB, enumRes, matcherVars, laterVars>>

NextEnums == CompareEnumsAB \/ CompareEnumsBA

SpecEnums == InitEnums /\ [][NextEnums]_vars

\* ------------------------------------- FindStrictStructureBasedMatches calls
Init ==
    /\ MatcherIdle
    /\ EnumsIdle
    /\ LaterIdle

\* lines 17-50: the function is entered with its three arguments
Enter(obf, unobf, ems) ==
    /\ obfuscated' = obf
    /\ unobfuscated' = unobf
    /\ enumMatches' = ems
    /\ matches' = <<>>
    /\ matchedObfuscated' = markObfuscated(ems)
    /\ matchedUnobfuscated' = markUnobfuscated(ems)
    /\ unmatchedObs' = selectUnmatched(obf.MessageType, matchedObfuscated')
    /\ unmatchedUnobs' = selectUnmatched(unobf.MessageType, matchedUnobfuscated')
    /\ startingUnmatched' = Len(unmatchedObs')
    /\ somethingChanged' = TRUE
    /\ passes' = 0
    /\ pc' = "loop"
    /\ examined' = <<>>
    /\ candidates' = <<>>
    /\ pairs' = <<>>
    /\ UNCHANGED <<newlyMatchedObs, obsIdx, enumVars, laterVars, passStartMatched, passStartMatches>>

\* the first call, on any two descriptors and any list of enum matches
Call ==
    /\ pc = "idle"
    /\ \E obf \in [MessageType : InjSeqsUpTo(ObfMsgs, MaxObf)] :
       \E unobf \in [MessageType : InjSeqsUpTo(RefMsgs, MaxRef)] :
       \E ems \in InjSeqsUpTo(EnumMatchPool, MaxEnumMatches) :
          /\ Enter(obf, unobf, ems)
          /\ firstEnumMatches' = ems
    /\ run' = 1
    /\ UNCHANGED firstMatches

\* lines 51-56: the loop test holds, a pass begins
BeginPass ==
    /\ pc = "loop"
    /\ somethingChanged
    /\ passes' = passes + 1
    /\ somethingChanged' = FALSE
    /\ newlyMatchedObs' = <<>>
    /\ obsIdx' = 1
    /\ pc' = "scan"
    /\ passStartMatched' = Cardinality(matchedObfuscated)
    /\ passStartMatches' = Len(matches)
    /\ examined' = <<>>
    /\ candidates' = <<>>
    /\ UNCHANGED <<matches, matchedObfuscated, matchedUnobfuscated, unmatchedObs,
                   unmatchedUnobs, startingUnmatched, enumVars, laterVars, argVars,
                   run, firstEnumMatches, firstMatches, pairs>>

\* lines 59-105: one iteration of the range over unmatchedObs
ExamineObs ==
    /\ pc = "scan"
    /\ obsIdx <= Len(unmatchedObs)
    /\ LET obsMsg == unmatchedObs[obsIdx]
           \* line 60: a message whose name is already marked is passed over
           skipped == obsMsg.Name \in matchedObfuscated
           cands == IF skipped THEN <<>>
                    ELSE findCandidates(obsMsg, unmatchedUnobs, matchedUnobfuscated)
           accepted == ~skipped /\ acceptCandidates(cands)
           matched == cands[1]
       IN /\ examined' = IF skipped THEN <<>> ELSE <<obsMsg>>
          /\ candidates' = cands
          /\ somethingChanged' =
                IF skipped THEN somethingChanged
                ELSE changedAfter(somethingChanged, accepted)
          /\ matchedObfuscated' =
                IF accepted THEN matchedObfuscated \cup {obsMsg.Name} ELSE matchedObfuscated
          /\ matchedUnobfuscated' =
                IF accepted THEN matchedUnobfuscated \cup {matched.Name}
                ELSE matchedUnobfuscated
          /\ newlyMatchedObs' =
                IF accepted THEN Append(newlyMatchedObs, obsMsg.Name) ELSE newlyMatchedObs
          /\ matches' =
                IF accepted
                THEN Append(matches,
                            MessageMatch(obsMsg.Name, matched.Name,
                                compareMessageStructures(obsMsg, matched).confidence))
                ELSE matches
          /\ pairs' = IF accepted THEN Append(pairs, [o |-> obsMsg, r |-> matched]) ELSE pairs
    /\ obsIdx' = obsIdx + 1
    /\ UNCHANGED <<unmatchedObs, unmatchedUnobs, startingUnmatched, passes, pc, enumVars, laterVars,
                   argVars, run, firstEnumMatches, firstMatches, passStartMatched,
                   passStartMatches>>

\* a pass end that keeps the marks of the enum matches only
EndPassForgettingMarks ==
    /\ pc = "scan"
    /\ obsIdx > Len(unmatchedObs)
    /\ IF somethingChanged /\ Len(newlyMatchedObs) > 0
       THEN /\ unmatchedObs' = selectUnmatched(unmatchedObs, matchedObfuscated)
            /\ unmatchedUnobs' = selectUnmatched(unmatchedUnobs, matchedUnobfuscated)
       ELSE UNCHANGED <<unmatchedObs, unmatchedUnobs>>
    /\ matchedObfuscated' = markObfuscated(enumMatches)
    /\ matchedUnobfuscated' = markUnobfuscated(enumMatches)
    /\ pc' = "loop"
    /\ UNCHANGED <<matches, startingUnmatched, somethingChanged, passes, newlyMatchedObs,
                   obsIdx, enumVars, laterVars, argVars, histVars>>

\* lines 107-125: the range is exhausted, the matched messages leave the pools
EndPass ==
    /\ pc = "scan"
    /\ obsIdx > Len(unmatchedObs)
    /\ IF somethingChanged /\ Len(newlyMatchedObs) > 0
       THEN /\ unmatchedObs' = selectUnmatched(unmatchedObs, matchedObfuscated)
            /\ unmatchedUnobs' = selectUnmatched(unmatchedUnobs, matchedUnobfuscated)
       ELSE UNCHANGED <<unmatchedObs, unmatchedUnobs>>
    /\ pc' = "loop"
    /\ UNCHANGED <<matches, matchedObfuscated, matchedUnobfuscated, startingUnmatched,
                   somethingChanged, passes, newlyMatchedObs, obsIdx, enumVars, laterVars, argVars,
                   histVars>>

\* lines 127-141: the loop test fails, the matches are returned
Return ==
    /\ pc = "loop"
    /\ ~somethingChanged
    /\ pc' = "returned"
    /\ UNCHANGED <<matches, matchedObfuscated, matchedUnobfuscated, unmatchedObs,
                   unmatchedUnobs, startingUnmatched, somethingChanged, passes,
                   newlyMatchedObs, obsIdx, enumVars, laterVars, argVars, histVars>>

\* the second call: the caller folds the result into the enum matches
Rerun ==
    /\ pc = "returned"
    /\ run = 1
    /\ run' = 2
    /\ firstMatches' = matches
    /\ Enter(obfuscated, unobfuscated, enumMatches \o matches)
    /\ UNCHANGED firstEnumMatches

Next == Call \/ BeginPass \/ ExamineObs \/ EndPass \/ Return \/ Rerun

Spec == Init /\ [][Next]_vars

\* the first call, on descriptors of up to MaxManyObf obfuscated and up to
\* MaxManyRef reference messages and
\* without enum matches
CallMany ==
    /\ pc = "idle"
    /\ \E obf \in [MessageType : InjSeqsUpTo(ManyObfMsgs, MaxManyObf)] :
       \E unobf \in [MessageType : InjSeqsUpTo(ManyRefMsgs, MaxManyRef)] :
          Enter(obf, unobf, <<>>)
    /\ firstEnumMatches' = <<>>
    /\ run' = 1
    /\ UNCHANGED firstMatches

NextMany == CallMany \/ BeginPass \/ ExamineObs \/ EndPass \/ Return \/ Rerun

SpecMany == Init /\ [][NextMany]_vars

\* -------------------------------------------------- FindEnumBasedMatches calls
Reverse(seq) == [i \in 1..Len(seq) |-> seq[Len(seq) + 1 - i]]

\* the message pairs of a result with their message-level confidence
MatchSet(ms) ==
    {[ObfuscatedMsg |-> ms[i].ObfuscatedMsg, OriginalMsg |-> ms[i].OriginalMsg,
      MatchPercent |-> ms[i].MatchPercent] : i \in DOMAIN ms}

\* lines 12-27: the function is entered with its two descriptors
EnumEnter(obf, unobf) ==
    /\ emObfuscated' = obf
    /\ emUnobfuscated' = unobf
    /\ emMatches' = <<>>
    /\ emObsIdx' = 1
    /\ emUnobsIdx' = 1
    /\ emPc' = "scan"
    /\ emTried' = <<>>
    /\ emPairs' = <<>>
    /\ UNCHANGED <<emOthers>>

\* the first call, on any two descriptors
EnumCall ==
    /\ emPc = "idle"
    /\ \E obf \in [MessageType : InjSeqsUpTo(EnumObfMsgs, MaxObf)] :
       \E unobf \in [MessageType : InjSeqsUpTo(EnumRefMsgs, MaxRef)] :
          EnumEnter(obf, unobf)
    /\ emRun' = 1
    /\ UNCHANGED <<emReversed, emFirstMatches>>

\* lines 28-32: an obfuscated message without enums is passed over
EnumSkipObs ==
    /\ emPc = "scan"
    /\ emObsIdx <= Len(emObfuscated.MessageType)
    /\ DOMAIN getAllEnums(emObfuscated.MessageType[emObsIdx], <<>>) = {}
    /\ emObsIdx' = emObsIdx + 1
    /\ emTried' = <<>>
    /\ UNCHANGED <<emObfuscated, emUnobfuscated, emMatches, emUnobsIdx, emPc, emRun,
                   emReversed, emFirstMatches, emPairs, emOthers>>

\* lines 79-112: the candidate is accepted and ends the range, or is passed
EnumDecide(obsMsg, unobsMsg, scan) ==
    /\ emTried' = <<[o |-> emObsIdx, r |-> emUnobsIdx, accepted |-> acceptScan(scan)]>>
    /\ IF acceptScan(scan)
       THEN /\ emMatches' =
                 Append(emMatches,
                        [ObfuscatedMsg |-> obsMsg.Name,
                         OriginalMsg |-> unobsMsg.Name,
                         MatchPercent |->
                            averageConfidence([i \in DOMAIN scan.enumMatches |->
                                                  scan.enumMatches[i].Confidence]),
                         EnumMatches |-> scan.enumMatches])
            /\ emPairs' = Append(emPairs, [o |-> emObsIdx, r |-> emUnobsIdx])
            \* line 111: break
            /\ emObsIdx' = emObsIdx + 1
            /\ emUnobsIdx' = 1
       ELSE /\ emUnobsIdx' = emUnobsIdx + 1
            /\ UNCHANGED <<emMatches, emPairs, emObsIdx>>

\* lines 38-77: the two ranges over the enum maps visit their keys in any order
EnumScan(obsMsg, unobsMsg, obfsEnums, unobsEnums) ==
    /\ DOMAIN obfsEnums # {}
    /\ \E inner \in [DOMAIN obfsEnums -> IterationOrders(DOMAIN unobsEnums)] :
       \E outer \in IterationOrders(DOMAIN obfsEnums) :
          EnumDecide(obsMsg, unobsMsg,
                     scanObfsEnums([obfsPath \in DOMAIN obfsEnums |->
                                       scanUnobsEnums(obfsPath, obfsEnums[obfsPath], unobsEnums,
                                                      inner[obfsPath], Len(inner[obfsPath]))],
                                   outer, Len(outer)))

\* lines 35-112: one iteration of the range over the reference messages
EnumTryCandidate ==
    /\ emPc = "scan"
    /\ emObsIdx <= Len(emObfuscated.MessageType)
    /\ emUnobsIdx <= Len(candidatesOf(emUnobfuscated, emMatches))
    /\ EnumScan(emObfuscated.MessageType[emObsIdx],
                candidatesOf(emUnobfuscated, emMatches)[emUnobsIdx],
                getAllEnums(emObfuscated.MessageType[emObsIdx], <<>>),
                getAllEnums(candidatesOf(emUnobfuscated, emMatches)[emUnobsIdx], <<>>))
    /\ UNCHANGED <<emObfuscated, emUnobfuscated, emPc, emRun, emReversed, emFirstMatches,
                   emOthers>>

\* line 113: the reference messages are exhausted without a match
EnumNextObs ==
    /\ emPc = "scan"
    /\ emObsIdx <= Len(emObfuscated.MessageType)
    /\ DOMAIN getAllEnums(emObfuscated.MessageType[emObsIdx], <<>>) # {}
    /\ emUnobsIdx > Len(candidatesOf(emUnobfuscated, emMatches))
    /\ emObsIdx' = emObsIdx + 1
    /\ emUnobsIdx' = 1
    /\ emTried' = <<>>
    /\ UNCHANGED <<emObfuscated, emUnobfuscated, emMatches, emPc, emRun, emReversed,
                   emFirstMatches, emPairs, emOthers>>

\* lines 114-138: every obfuscated message has been handled
EnumReturn ==
    /\ emPc = "scan"
    /\ emObsIdx > Len(emObfuscated.MessageType)
    /\ emPc' = "returned"
    /\ emTried' = <<>>
    /\ UNCHANGED <<emObfuscated, emUnobfuscated, emMatches, emObsIdx, emUnobsIdx, emRun,
                   emReversed, emFirstMatches, emPairs, emOthers>>

\* a second execution on the same two descriptors
EnumCallAgain ==
    /\ emPc = "returned"
    /\ emRun = 1
    /\ emRun' = 2
    /\ emFirstMatches' = MatchSet(emMatches)
    /\ EnumEnter(emObfuscated, emUnobfuscated)
    /\ UNCHANGED emReversed

\* a second execution with the reference messages declared in reverse order
EnumCallReordered ==
    /\ emPc = "returned"
    /\ emRun = 1
    /\ emRun' = 2
    /\ emReversed' = TRUE
    /\ emFirstMatches' = MatchSet(emMatches)
    /\ EnumEnter(emObfuscated, [MessageType |-> Reverse(emUnobfuscated.MessageType)])

NextEnumMatch ==
    \/ EnumCall
    \/ EnumSkipObs
    \/ EnumTryCandidate
    \/ EnumNextObs
    \/ EnumReturn
    \/ EnumCallAgain
    \/ EnumCallReordered

SpecEnumMatch == Init /\ [][NextEnumMatch]_vars

\* ------------------------------------------------------ compareFields calls
InitFields ==
    /\ fieldA \in FieldPool
    /\ fieldB \in FieldPool
    /\ fieldRes = FALSE
    /\ fieldPc = "start"
    /\ EnumsIdle
    /\ MatcherIdle
    /\ EnumMatcherIdle
    /\ StructIdle
    /\ MainIdle
    /\ ParseStart
    /\ TreeIdle

\* compareFields(A, B)
CompareFieldsAB ==
    /\ fieldPc = "start"
    /\ fieldRes' = compareFields(fieldA, fieldB)
    /\ fieldPc' = "compared"
    /\ UNCHANGED <<fieldA, fieldB, fieldOthers>>

NextFields == CompareFieldsAB

SpecFields == InitFields /\ [][NextFields]_vars

\* ------------------------------------------- compareMessageStructures calls
InitStruct ==
    /\ structA \in StructMsgs
    /\ structB \in StructMsgs
    /\ structRes = NoResult
    /\ structPc = "start"
    /\ EnumsIdle
    /\ MatcherIdle
    /\ EnumMatcherIdle
    /\ FieldsIdle
    /\ MainIdle
    /\ ParseStart
    /\ TreeIdle

\* compareMessageStructures(A, B)
CompareStructuresAB ==
    /\ structPc = "start"
    /\ structRes' = compareMessageStructures(structA, structB)
    /\ structPc' = "compared"
    /\ UNCHANGED <<structA, structB, structOthers>>

NextStruct == CompareStructuresAB

SpecStruct == InitStruct /\ [][NextStruct]_vars

\* ------------------------------------------------------------------- main
InitMain ==
    /\ srcDir \in SourceDirs
    /\ filteredDir \in LoadedDirs
    /\ clearDir \in LoadedDirs
    /\ filterErr = NoError
    /\ obfuscatedErr = NoError
    /\ unobfuscatedErr = NoError
    /\ mainObfuscated = {}
    /\ mainUnobfuscated = {}
    /\ mainInvoked = {}
    /\ mainPc = "filter"
    /\ exitCode = 0
    /\ EnumsIdle
    /\ MatcherIdle
    /\ EnumMatcherIdle
    /\ FieldsIdle
    /\ StructIdle
    /\ ParseStart
    /\ TreeIdle

\* lines 44-46: an error of FilterProtoFiles is logged
MainFilterProtoFiles ==
    /\ mainPc = "filter"
    /\ LET res == FilterProtoFiles(srcDir, filteredDir)
       IN /\ filterErr' = res.err
          /\ filteredDir' = res.out
    /\ mainPc' = "load obfuscated"
    /\ UNCHANGED <<srcDir, clearDir, obfuscatedErr, unobfuscatedErr, mainObfuscated,
                   mainUnobfuscated, mainInvoked, exitCode, mainOthers>>

\* lines 55-59
MainLoadObfuscated ==
    /\ mainPc = "load obfuscated"
    /\ LET res == LoadAndParseProtos(filteredDir)
       IN /\ obfuscatedErr' = res.err
          /\ mainObfuscated' = res.desc
          /\ IF exitsAfter(res.err)
             THEN mainPc' = "exited" /\ exitCode' = 1
             ELSE mainPc' = "load unobfuscated" /\ exitCode' = exitCode
    /\ UNCHANGED <<srcDir, filteredDir, clearDir, filterErr, unobfuscatedErr,
                   mainUnobfuscated, mainInvoked, mainOthers>>

\* lines 61-65
MainLoadUnobfuscated ==
    /\ mainPc = "load unobfuscated"
    /\ LET res == LoadAndParseProtos(clearDir)
       IN /\ unobfuscatedErr' = res.err
          /\ mainUnobfuscated' = res.desc
          /\ IF exitsAfter(res.err)
             THEN mainPc' = "exited" /\ exitCode' = 1
             ELSE mainPc' = "match enums" /\ exitCode' = exitCode
    /\ UNCHANGED <<srcDir, filteredDir, clearDir, filterErr, obfuscatedErr,
                   mainObfuscated, mainInvoked, mainOthers>>

\* line 68
MainFindEnumBasedMatches ==
    /\ mainPc = "match enums"
    /\ mainInvoked' = mainInvoked \cup {"FindEnumBasedMatches"}
    /\ mainPc' = "match structures"
    /\ UNCHANGED <<srcDir, filteredDir, clearDir, filterErr, obfuscatedErr, unobfuscatedErr,
                   mainObfuscated, mainUnobfuscated, exitCode, mainOthers>>

\* line 71
MainFindStrictStructureBasedMatches ==
    /\ mainPc = "match structures"
    /\ mainInvoked' = mainInvoked \cup {"FindStrictStructureBasedMatches"}
    /\ mainPc' = "report"
    /\ UNCHANGED <<srcDir, filteredDir, clearDir, filterErr, obfuscatedErr, unobfuscatedErr,
                   mainObfuscated, mainUnobfuscated, exitCode, mainOthers>>

\* lines 74-81: the reports; their errors are logged
MainGenerateReports ==
    /\ mainPc = "report"
    /\ mainPc' = "done"
    /\ UNCHANGED <<srcDir, filteredDir, clearDir, filterErr, obfuscatedErr, unobfuscatedErr,
                   mainObfuscated, mainUnobfuscated, mainInvoked, exitCode, mainOthers>>

NextMain ==
    \/ MainFilterProtoFiles
    \/ MainLoadObfuscated
    \/ MainLoadUnobfuscated
    \/ MainFindEnumBasedMatches
    \/ MainFindStrictStructureBasedMatches
    \/ MainGenerateReports

SpecMain == InitMain /\ [][NextMain]_vars

\* ----------------------------------------------------------- ParseProtoFile
InitParse ==
    /\ ParseStart
    /\ EnumsIdle
    /\ MatcherIdle
    /\ EnumMatcherIdle
    /\ FieldsIdle
    /\ StructIdle
    /\ MainIdle
    /\ TreeIdle

\* the kind of the innermost block that is open in the text
ContextKind == IF context = <<>> THEN "file" ELSE context[Len(context)].kind

\* the innermost message that is open in the text
RECURSIVE innermostMessage(_)
innermostMessage(ctx) ==
    IF ctx = <<>> THEN NilMsg
    ELSE IF ctx[Len(ctx)].kind = "message" THEN ctx[Len(ctx)].id
    ELSE innermostMessage(SubSeq(ctx, 1, Len(ctx) - 1))

\* a line "message X {", lines 145-147 and 167-179
ParseMessageLine ==
    /\ lineNo < MaxLines
    /\ ContextKind \in {"file", "message"}
    /\ LET id == Len(messages) + 1
           msg == Msg("X", <<>>, <<>>, <<>>, <<>>)
       IN /\ IF currentMsg = NilMsg
             THEN /\ desc' = [desc EXCEPT !.MessageType = Append(@, id)]
                  /\ messages' = Append(messages, msg)
                  /\ parentMsgs' = parentMsgs
             ELSE /\ parentMsgs' = Append(parentMsgs, currentMsg)
                  /\ messages' =
                        Append([messages EXCEPT ![currentMsg].NestedType = Append(@, id)], msg)
                  /\ desc' = desc
          /\ currentMsg' = id
          /\ textParent' = Append(textParent, innermostMessage(context))
          /\ context' = Append(context, [kind |-> "message", id |-> id, oneofs |-> 0])
    /\ nestLevel' = nestLevel + 1
    /\ lineNo' = lineNo + 1
    /\ UNCHANGED <<currentEnum, currentOneofIndex, textFields, parseOthers>>

\* a line "enum E {", lines 145-147 and 181-193
ParseEnumLine ==
    /\ lineNo < MaxLines
    /\ ContextKind \in {"file", "message"}
    /\ IF currentMsg # NilMsg
       THEN /\ messages' = [messages EXCEPT ![currentMsg].EnumType = Append(@, Enum("E", <<>>))]
            /\ currentEnum' = <<currentMsg, Len(messages[currentMsg].EnumType) + 1>>
            /\ desc' = desc
       ELSE /\ desc' = [desc EXCEPT !.EnumType = Append(@, Enum("E", <<>>))]
            /\ currentEnum' = <<NilMsg, Len(desc.EnumType) + 1>>
            /\ messages' = messages
    /\ nestLevel' = nestLevel + 1
    /\ lineNo' = lineNo + 1
    /\ context' = Append(context, [kind |-> "enum", id |-> NilMsg, oneofs |-> 0])
    /\ UNCHANGED <<currentMsg, currentOneofIndex, parentMsgs, textParent, textFields,
                   parseOthers>>

\* a line "oneof x {", lines 145-147 and 196-205
ParseOneofLine ==
    /\ lineNo < MaxLines
    /\ ContextKind = "message"
    /\ IF currentMsg # NilMsg
       THEN /\ messages' = [messages EXCEPT ![currentMsg].OneOfDecl = Append(@, [Name |-> "x"])]
            /\ currentOneofIndex' = InOneof(Len(messages[currentMsg].OneOfDecl))
       ELSE UNCHANGED <<messages, currentOneofIndex>>
    /\ nestLevel' = nestLevel + 1
    /\ lineNo' = lineNo + 1
    /\ LET top == context[Len(context)]
       IN context' =
            Append([context EXCEPT ![Len(context)].oneofs = @ + 1],
                   [kind |-> "oneof", id |-> top.id, oneofs |-> top.oneofs])
    /\ UNCHANGED <<desc, currentMsg, currentEnum, parentMsgs, textParent, textFields,
                   parseOthers>>

\* a line "int32 f = n;", lines 208-243 (the line is no enum value: 253-256)
ParseFieldLine ==
    /\ lineNo < MaxLines
    /\ ContextKind \in {"message", "oneof"}
    /\ IF currentMsg # NilMsg
       THEN messages' =
                [messages EXCEPT ![currentMsg].Field =
                    Append(@, Fld("f", lineNo + 1, "", "int32", currentOneofIndex))]
       ELSE messages' = messages
    /\ lineNo' = lineNo + 1
    /\ LET top == context[Len(context)]
       IN textFields' =
            Append(textFields,
                   [Number |-> lineNo + 1,
                    msg |-> top.id,
                    oneof |-> IF top.kind = "oneof" THEN InOneof(top.oneofs) ELSE NoOneof])
    /\ UNCHANGED <<desc, currentMsg, currentEnum, currentOneofIndex, parentMsgs, nestLevel,
                   context, textParent, parseOthers>>

\* a line "A = n;" of an enum, lines 214-226 in a message and 246-263 outside
ParseEnumValueLine ==
    /\ lineNo < MaxLines
    /\ ContextKind = "enum"
    /\ LET value == [Name |-> "A", Number |-> lineNo + 1]
       IN IF currentEnum = NilEnum THEN UNCHANGED <<desc, messages>>
          ELSE IF currentEnum[1] = NilMsg
          THEN /\ desc' = [desc EXCEPT !.EnumType[currentEnum[2]].Value = Append(@, value)]
               /\ messages' = messages
          ELSE /\ messages' =
                    [messages EXCEPT ![currentEnum[1]].EnumType[currentEnum[2]].Value =
                        Append(@, value)]
               /\ desc' = desc
    /\ lineNo' = lineNo + 1
    /\ UNCHANGED <<currentMsg, currentEnum, currentOneofIndex, parentMsgs, nestLevel,
                   context, textParent, textFields, parseOthers>>

\* a line "}", lines 150-165
ParseClosingBrace ==
    /\ lineNo < MaxLines
    /\ context # <<>>
    /\ nestLevel' = nestLevel - 1
    /\ LET closed == closes(currentEnum, currentOneofIndex, currentMsg, parentMsgs,
                            nestLevel - 1)
       IN /\ currentEnum' = IF closed = "enum" THEN NilEnum ELSE currentEnum
          /\ currentOneofIndex' = IF closed = "oneof" THEN NoOneof ELSE currentOneofIndex
          /\ currentMsg' =
                IF closed = "pop" THEN parentMsgs[Len(parentMsgs)]
                ELSE IF closed = "top" THEN NilMsg
                ELSE currentMsg
          /\ parentMsgs' =
                IF closed = "pop" THEN SubSeq(parentMsgs, 1, Len(parentMsgs) - 1)
                ELSE parentMsgs
    /\ lineNo' = lineNo + 1
    /\ context' = SubSeq(context, 1, Len(context) - 1)
    /\ UNCHANGED <<desc, messages, textParent, textFields, parseOthers>>

NextParse ==
    \/ ParseMessageLine
    \/ ParseEnumLine
    \/ ParseOneofLine
    \/ ParseFieldLine
    \/ ParseEnumValueLine
    \/ ParseClosingBrace

SpecParse == InitParse /\ [][NextParse]_vars

\* ------------------------------------------------------- getAllEnums calls
InitTree ==
    /\ treeDesc \in [MessageType : {<<m>> : m \in EnumTrees("Top", MaxDepth)},
                     EnumType : {<<>>, <<Enum("E", ValuesA)>>}]
    /\ treeEnums = <<>>
    /\ treePc = "start"
    /\ EnumsIdle
    /\ MatcherIdle
    /\ EnumMatcherIdle
    /\ FieldsIdle
    /\ StructIdle
    /\ MainIdle
    /\ ParseStart

\* enum.go line 29: getAllEnums(obsMsg, "") for a message of the descriptor
GetAllEnumsOfMessage ==
    /\ treePc = "start"
    /\ treeEnums' = getAllEnums(treeDesc.MessageType[1], <<>>)
    /\ treePc' = "collected"
    /\ UNCHANGED <<treeDesc, treeOthers>>

NextTree == GetAllEnumsOfMessage

SpecTree == InitTree /\ [][NextTree]_vars

\* ----------------------------------------------------------------- claims
ObfMessages == Range(obfuscated.MessageType)
RefMessages == Range(unobfuscated.MessageType)
\* the names an enum match or an emitted match has taken
TakenObf == {m.ObfuscatedMsg : m \in Range(enumMatches) \cup Range(matches)}
TakenRef == {m.OriginalMsg : m \in Range(enumMatches) \cup Range(matches)}
\* compareMessageStructures reports a match with confidence exactly 100
PerfectPair(o, r) ==
    LET res == compareMessageStructures(o, r)
    IN res.isMatch /\ res.confidence = Int2F(100)
\* the positions of the reference messages that are not taken and perfect for o
PerfectFree(o) ==
    {j \in 1..Len(unobfuscated.MessageType) :
        /\ unobfuscated.MessageType[j].Name \notin TakenRef
        /\ PerfectPair(o, unobfuscated.MessageType[j])}

C2_OnlyMessagesOutsideEnumMatches ==
    /\ \A i \in DOMAIN matches : \A j \in DOMAIN enumMatches :
         /\ matches[i].ObfuscatedMsg # enumMatches[j].ObfuscatedMsg
         /\ matches[i].OriginalMsg # enumMatches[j].OriginalMsg
    /\ \A i \in DOMAIN candidates : \A j \in DOMAIN enumMatches :
         candidates[i].Name # enumMatches[j].OriginalMsg
    /\ \A i \in DOMAIN examined : \A j \in DOMAIN enumMatches :
         examined[i].Name # enumMatches[j].ObfuscatedMsg

\* C2 witness: the first call has returned a match for a message that is also
\* a perfect match of a reference message named by enumMatches
C2_Witness ==
    /\ pc = "returned"
    /\ run = 1
    /\ \E i \in DOMAIN pairs : \E r \in RefMessages :
         /\ r.Name \in {enumMatches[j].OriginalMsg : j \in DOMAIN enumMatches}
         /\ PerfectPair(pairs[i].o, r)

C4_PeelingTerminates ==
    /\ [](/\ passes <= Len(obfuscated.MessageType) + 1
          /\ Cardinality(matchedObfuscated \ markObfuscated(enumMatches))
                <= Len(obfuscated.MessageType))
    /\ [][/\ (pc = "scan" /\ pc' = "loop") =>
                /\ somethingChanged' =>
                     /\ Cardinality(matchedObfuscated') > passStartMatched
                     /\ matchedObfuscated' \ markObfuscated(enumMatches)
                            \subseteq {o.Name : o \in ObfMessages}
                /\ Len(matches') = passStartMatches => ~somethingChanged'
          /\ (pc = "loop" /\ ~somethingChanged) => pc' = "returned"
          /\ (pc = "loop" /\ somethingChanged) => (pc' = "scan" /\ passes' = passes + 1)
          /\ (pc = "scan" /\ pc' = "scan") => obsIdx' = obsIdx + 1
         ]_vars

\* C4 witness: a call returned after two passes that each added a match
C4_Witness ==
    /\ pc = "returned"
    /\ passes = 3
    /\ Len(matches) = 2

\* C5 as stated: at most N passes for N initially unmatched obfuscated messages.
C5_AtMostNPasses == pc = "returned" => passes <= startingUnmatched

\* C5 as amended: at most N + 1 passes, the last one being the pass that finds
\* nothing.
C5_AtMostNPlusOnePasses == passes <= startingUnmatched + 1

\* C5 witness: two unmatched messages, one matched per pass, three passes
C5_Witness ==
    /\ pc = "returned"
    /\ startingUnmatched = 2
    /\ passes = startingUnmatched + 1

\* C6: the second call, given the first call's enumMatches followed by the
\* first call's result, returns an empty match list.
C6_SecondRunEmpty ==
    (pc = "returned" /\ run = 2) =>
        /\ enumMatches = firstEnumMatches \o firstMatches
        /\ matches = <<>>

\* C6 witness: the second call returned, the first call had found a match and
\* the second call had a message to examine
C6_Witness ==
    /\ pc = "returned"
    /\ run = 2
    /\ firstMatches # <<>>
    /\ startingUnmatched > 0
    /\ unmatchedUnobs # <<>>

\* the name -> number entries of an enum, the last declaration of a name winning
Entries(e) ==
    {<<e.Value[i].Name, e.Value[i].Number>> : i \in
        {k \in 1..Len(e.Value) : \A l \in (k + 1)..Len(e.Value) : e.Value[l].Name # e.Value[k].Name}}

\* C7: compareEnums(A, B) reports a match iff every (name, number) entry of the
\* smaller enum is an entry of the larger one.
C7_MatchIffSmallerContained ==
    enumPc \in {"compared", "swapped"} =>
        (enumRes.isMatch <=>
            IF Cardinality(Entries(enumA)) <= Cardinality(Entries(enumB))
            THEN Entries(enumA) \subseteq Entries(enumB)
            ELSE Entries(enumB) \subseteq Entries(enumA))

\* C7 witness: a match of a non-empty enum with a strictly larger one
C7_Witness ==
    /\ enumPc = "compared"
    /\ enumRes.isMatch
    /\ Entries(enumB) # {}
    /\ Cardinality(Entries(enumB)) < Cardinality(Entries(enumA))

\* C8: compareEnums(A, B) and compareEnums(B, A) return the same boolean.
C8_DecisionSymmetric ==
    enumPc = "swapped" => enumRes.isMatch = enumSwapRes.isMatch

\* C8 witness: both orders compared for enums of different sizes that match,
\* with different confidences
C8_Witness ==
    /\ enumPc = "swapped"
    /\ Cardinality(Entries(enumA)) > Cardinality(Entries(enumB))
    /\ enumRes.isMatch
    /\ enumSwapRes.isMatch
    /\ Entries(enumB) # {}

\* C9 as stated: with an empty value list on either side compareEnums returns
\* (false, 0).
C9_EmptyEnumNoMatch ==
    (enumPc \in {"compared", "swapped"} /\ (enumA.Value = <<>> \/ enumB.Value = <<>>)) =>
        enumRes = [isMatch |-> FALSE, confidence |-> Int2F(0)]

\* C10: compareMessageStructures returns (false, 0) for every pair with a
\* fieldless message, whatever else the messages declare, and no emitted
\* match pairs a fieldless message.
C10_FieldlessNeverMatches ==
    /\ \A o \in ObfMessages : \A r \in RefMessages :
         (Len(o.Field) = 0 \/ Len(r.Field) = 0) =>
            compareMessageStructures(o, r) = [isMatch |-> FALSE, confidence |-> Int2F(0)]
    /\ \A i \in DOMAIN pairs : Len(pairs[i].o.Field) > 0 /\ Len(pairs[i].r.Field) > 0

\* C10 witness: a call returned leaving a fieldless obfuscated message and a
\* fieldless reference message unmatched, both with a oneof and a nested type
C10_Witness ==
    /\ pc = "returned"
    /\ \E o \in ObfMessages : \E r \in RefMessages :
         /\ Len(o.Field) = 0 /\ Len(r.Field) = 0
         /\ Len(o.OneOfDecl) > 0 /\ Len(r.NestedType) > 0
         /\ o.Name \notin TakenObf /\ r.Name \notin TakenRef

EnumObfMessage(i) == emObfuscated.MessageType[i]
EnumRefMessage(j) == emUnobfuscated.MessageType[j]

\* C11 as stated: a candidate is accepted iff every enum reachable from the
\* obfuscated message has an enum reachable from the candidate for which
\* compareEnums reports a match, and no match is produced for a message
\* without a reachable enum.
C11_AcceptedIffEveryEnumMatches ==
    /\ \A t \in Range(emTried) :
          t.accepted <=>
             \A e \in EnumsIn(EnumObfMessage(t.o)) :
                \E f \in EnumsIn(EnumRefMessage(t.r)) : compareEnums(e, f).isMatch
    /\ \A i \in DOMAIN emPairs : EnumsIn(EnumObfMessage(emPairs[i].o)) # {}

\* the acceptance test of lines 42-80: every enum of the obfuscated message
\* has an enum of the candidate that compareEnums matches with a confidence
\* above zero
Satisfies(o, r) ==
    /\ EnumsIn(o) # {}
    /\ \A e \in EnumsIn(o) : \E f \in EnumsIn(r) :
          LET res == compareEnums(e, f)
          IN res.isMatch /\ FracGt(res.confidence, Int2F(0))

\* C12: every emitted match pairs an obfuscated message with the earliest
\* reference message, in declaration order, that satisfies the acceptance
\* test; no obfuscated message gets two matches; on return every obfuscated
\* message with a satisfying reference message has its match.
C12_FirstSatisfyingCandidateWins ==
    /\ Len(emMatches) = Len(emPairs)
    /\ \A i \in DOMAIN emPairs :
          LET o == EnumObfMessage(emPairs[i].o)
          IN /\ Satisfies(o, EnumRefMessage(emPairs[i].r))
             /\ \A j \in 1..(emPairs[i].r - 1) : ~Satisfies(o, EnumRefMessage(j))
             /\ emMatches[i].ObfuscatedMsg = o.Name
             /\ emMatches[i].OriginalMsg = EnumRefMessage(emPairs[i].r).Name
    /\ \A i, j \in DOMAIN emPairs : emPairs[i].o = emPairs[j].o => i = j
    /\ emPc = "returned" =>
          \A k \in DOMAIN emObfuscated.MessageType :
             (\E j \in DOMAIN emUnobfuscated.MessageType :
                 Satisfies(EnumObfMessage(k), EnumRefMessage(j)))
                => \E i \in DOMAIN emPairs : emPairs[i].o = k

\* C12 witness: the call on the reversed reference messages returned another
\* original message for an obfuscated message than the first call did
C12_Witness ==
    /\ emPc = "returned"
    /\ emRun = 2
    /\ emReversed
    /\ \E first \in emFirstMatches : \E second \in MatchSet(emMatches) :
          /\ first.ObfuscatedMsg = second.ObfuscatedMsg
          /\ first.OriginalMsg # second.OriginalMsg

\* C13 as stated: two executions on the same descriptors return the same
\* pairs with the same message-level confidence, whatever the order in which
\* the enum maps are visited.
C13_SameMatchSetOnEveryExecution ==
    (emPc = "returned" /\ emRun = 2 /\ ~emReversed) => MatchSet(emMatches) = emFirstMatches

\* 0 <= x <= 100 for an exact confidence; false of NaN
InRange(x) == FracGeq(x, Int2F(0)) /\ FracGeq(Int2F(100), x)

\* C15 as stated: every confidence lies in [0, 100]: the MatchPercent of each
\* match of FindEnumBasedMatches and the Confidence of each of its enum
\* matches, the value compareEnums returns and the value
\* compareMessageStructures returns; each match of
\* FindStrictStructureBasedMatches has MatchPercent exactly 100.
C15_ConfidenceInRange ==
    /\ \A i \in DOMAIN emMatches :
          /\ F64Leq(emMatches[i].MatchPercent, F64OfNat(100))
          /\ \A k \in DOMAIN emMatches[i].EnumMatches :
                InRange(emMatches[i].EnumMatches[k].Confidence)
    /\ \A i \in DOMAIN matches : matches[i].MatchPercent = Int2F(100)
    /\ enumPc \in {"compared", "swapped"} => InRange(enumRes.confidence)
    /\ enumPc = "swapped" => InRange(enumSwapRes.confidence)
    /\ \A o \in ObfMessages : \A r \in RefMessages :
          InRange(compareMessageStructures(o, r).confidence)

\* the reference messages no enum match names that are perfect matches of o
PerfectUnmatched(o) ==
    {r \in RefMessages : r.Name \notin markUnobfuscated(enumMatches) /\ PerfectPair(o, r)}

\* C14 as stated: an obfuscated message without oneofs that no enum match
\* names and that has two or more perfect matches among the reference
\* messages no enum match names is never matched, and none of those reference
\* messages is.
C14_AmbiguityNeverResolved ==
    \A o \in ObfMessages :
        (/\ o.Name \notin markObfuscated(enumMatches)
         /\ o.OneOfDecl = <<>>
         /\ Cardinality(PerfectUnmatched(o)) >= 2)
        => \A i \in DOMAIN pairs : pairs[i].o # o /\ pairs[i].r \notin PerfectUnmatched(o)

\* the closed set of types that compare equal to themselves
PrimitiveTypeNames == {"int32", "int64", "string", "bool"}
\* a field of a message type, an enum type or any other type outside the set
NonPrimitive(f) == f.Type \notin PrimitiveTypeNames
\* some position both messages have holds a field of a type outside the set
NonPrimitiveInCommonPrefix(a, b) ==
    \E i \in 1..Min(Len(a.Field), Len(b.Field)) :
        NonPrimitive(a.Field[i]) \/ NonPrimitive(b.Field[i])

\* C20: a field whose type is outside {int32, int64, string, bool} compares
\* equal to no field, itself included; two messages with such a field at a
\* position both have are not a perfect match, in either order, and neither
\* is a message with such a field and itself; no match of
\* FindStrictStructureBasedMatches pairs a message that has such a field.
C20_NonPrimitiveFieldNeverMatches ==
    /\ \A a \in ObfMessages \cup RefMessages : \A b \in ObfMessages \cup RefMessages :
          /\ \A f \in Range(a.Field) : \A g \in Range(b.Field) :
                (NonPrimitive(f) \/ NonPrimitive(g)) => ~compareFields(f, g)
          /\ NonPrimitiveInCommonPrefix(a, b) => ~PerfectPair(a, b)
    /\ \A i \in DOMAIN pairs :
          \A f \in Range(pairs[i].o.Field) \cup Range(pairs[i].r.Field) : ~NonPrimitive(f)

\* C20 witness: a call returned with a match and left unmatched an obfuscated
\* message with a field of a message type although a reference message with
\* the same field list was free
C20_Witness ==
    /\ pc = "returned"
    /\ matches # <<>>
    /\ \E o \in ObfMessages : \E r \in RefMessages :
          /\ o.Field = r.Field
          /\ \E f \in Range(o.Field) : NonPrimitive(f)
          /\ o.Name \notin TakenObf
          /\ r.Name \notin TakenRef

\* C19: compareFields(a, b) is true exactly when the two labels are equal,
\* the two types are equal and the type is one of int32, int64, string, bool;
\* the names, the numbers and the oneof membership of the two fields do not
\* enter the result.
C19_FieldsEqualIffLabelAndPrimitiveType ==
    fieldPc = "compared" =>
        /\ fieldRes <=> /\ fieldA.Label = fieldB.Label
                        /\ fieldA.Type = fieldB.Type
                        /\ fieldA.Type \in PrimitiveTypeNames
        /\ \A a \in FieldPool : \A b \in FieldPool :
              (/\ a.Label = fieldA.Label /\ a.Type = fieldA.Type
               /\ b.Label = fieldB.Label /\ b.Type = fieldB.Type)
                  => compareFields(a, b) = fieldRes

\* C19 witness: two fields that differ in name, number and oneof membership
\* compared equal
C19_Witness ==
    /\ fieldPc = "compared"
    /\ fieldRes
    /\ fieldA.Label = "repeated"
    /\ fieldA.Name # fieldB.Name
    /\ fieldA.Number # fieldB.Number
    /\ fieldA.OneOfIndex # fieldB.OneOfIndex

\* the positions of the fields of m in its oneof number i (counted from 0)
SlotPositions(m, i) == {j \in 1..Len(m.Field) : m.Field[j].OneOfIndex = <<i>>}

\* the conditions of a perfect structure match
PerfectConditions(a, b) ==
    /\ Len(a.Field) >= 1
    /\ Len(b.Field) >= 1
    /\ Len(a.Field) = Len(b.Field)
    /\ \A i \in 1..Len(a.Field) : compareFields(a.Field[i], b.Field[i])
    /\ (Len(a.OneOfDecl) > 0 \/ Len(b.OneOfDecl) > 0) =>
          /\ Len(a.OneOfDecl) = Len(b.OneOfDecl)
          /\ \A i \in 0..(Len(a.OneOfDecl) - 1) :
                /\ SlotPositions(a, i) # {}
                /\ SlotPositions(b, i) # {}
                /\ \A j \in SlotPositions(a, i) : \E k \in SlotPositions(b, i) :
                      compareFields(a.Field[j], b.Field[k])
                /\ Cardinality(SlotPositions(a, i)) >= Cardinality(SlotPositions(b, i))
    /\ (Len(a.NestedType) > 0 \/ Len(b.NestedType) > 0) =>
          Len(a.NestedType) = Len(b.NestedType)

\* the score of two counts: 1 - |n - m| / max(n, m)
CountScoreOf(n, m) == Frac(Max(n, m) - Abs(n - m), Max(n, m))

\* the score of oneof number i: the share of a's fields in it that have an
\* equal field in b's, over the size of the larger of the two
SlotScoreOf(a, b, i) ==
    IF SlotPositions(a, i) = {} \/ SlotPositions(b, i) = {} THEN Int2F(0)
    ELSE Frac(Cardinality({j \in SlotPositions(a, i) :
                    \E k \in SlotPositions(b, i) : compareFields(a.Field[j], b.Field[k])}),
              Max(Cardinality(SlotPositions(a, i)), Cardinality(SlotPositions(b, i))))

\* the applicable check scores of two messages that both have fields
CheckScores(a, b) ==
    LET common == Min(Len(a.Field), Len(b.Field))
        slots == Min(Len(a.OneOfDecl), Len(b.OneOfDecl))
    IN <<CountScoreOf(Len(a.Field), Len(b.Field)),
         Frac(Cardinality({i \in 1..common : compareFields(a.Field[i], b.Field[i])}),
              common)>>
       \o (IF Len(a.OneOfDecl) > 0 \/ Len(b.OneOfDecl) > 0
           THEN <<CountScoreOf(Len(a.OneOfDecl), Len(b.OneOfDecl))>>
                \o [i \in 1..slots |-> SlotScoreOf(a, b, i - 1)]
           ELSE <<>>)
       \o (IF Len(a.NestedType) > 0 \/ Len(b.NestedType) > 0
           THEN <<CountScoreOf(Len(a.NestedType), Len(b.NestedType))>>
           ELSE <<>>)

RECURSIVE SumOfScores(_)
SumOfScores(scores) ==
    IF scores = <<>> THEN Int2F(0)
    ELSE FracAdd(Head(scores), SumOfScores(Tail(scores)))

MeanPercent(scores) ==
    FracMul(FracDiv(SumOfScores(scores), Int2F(Len(scores))), Int2F(100))

\* C18: compareMessageStructures(a, b) returns confidence 100 exactly under
\* the conditions of a perfect structure match; whenever both messages have
\* fields the confidence is the mean of the applicable check scores times
\* 100, and it is below 100 when the conditions do not all hold.
C18_PerfectIffAllChecksPass ==
    structPc = "compared" =>
        /\ FracEq(structRes.confidence, Int2F(100)) <=> PerfectConditions(structA, structB)
        /\ (Len(structA.Field) > 0 /\ Len(structB.Field) > 0) =>
              /\ FracEq(structRes.confidence, MeanPercent(CheckScores(structA, structB)))
              /\ ~PerfectConditions(structA, structB) =>
                    FracGt(Int2F(100), structRes.confidence)

\* C18 witness: a perfect match of two messages with a oneof and a nested
\* message each, in which the first message's oneof holds more fields than
\* the second's
C18_Witness ==
    /\ structPc = "compared"
    /\ FracEq(structRes.confidence, Int2F(100))
    /\ Len(structA.NestedType) > 0
    /\ Cardinality(SlotPositions(structA, 0)) > Cardinality(SlotPositions(structB, 0))

\* C16 as stated: FindEnumBasedMatches and FindStrictStructureBasedMatches
\* are never invoked after FilterProtoFiles or LoadAndParseProtos has
\* returned an error.
C16_NoMatchingAfterAnyError ==
    mainInvoked # {} =>
        /\ filterErr = NoError
        /\ obfuscatedErr = NoError
        /\ unobfuscatedErr = NoError

\* C16 amended: the matchers are never invoked after LoadAndParseProtos has
\* returned an error, which ends the run with exit status 1; an error of
\* FilterProtoFiles is only logged, never ends the run, and the run goes on
\* to load protos/filtered.
C16_NoMatchingAfterLoadError ==
    /\ mainInvoked # {} => obfuscatedErr = NoError /\ unobfuscatedErr = NoError
    /\ (obfuscatedErr # NoError \/ unobfuscatedErr # NoError) <=> mainPc = "exited"
    /\ mainPc = "exited" <=> exitCode = 1
    /\ mainPc = "exited" => mainInvoked = {}

\* C16 witness: FilterProtoFiles returned an error, the obfuscated protos
\* were loaded all the same, and the run ended on the error of loading the
\* clear protos before any matcher was invoked
C16_Witness ==
    /\ mainPc = "exited"
    /\ filterErr # NoError
    /\ mainObfuscated # {}
    /\ unobfuscatedErr # NoError
    /\ mainInvoked = {}

\* the message whose NestedType holds message id, NilMsg for a message of
\* desc.MessageType
ParsedParent(id) ==
    IF \E p \in 1..Len(messages) : id \in Range(messages[p].NestedType)
    THEN CHOOSE p \in 1..Len(messages) : id \in Range(messages[p].NestedType)
    ELSE NilMsg

\* C17: after every line of a text whose openers and closing braces are on
\* lines of their own, every message is nested in the message that encloses
\* it in the text, every field is in the field list of the innermost message
\* that encloses it, its OneOfIndex is the index of the oneof that encloses
\* it (nil when none does), at any depth, and every OneOfIndex indexes an
\* entry of the OneOfDecl of the message that holds the field.
C17_FieldsInEnclosingMessageAndOneof ==
    /\ \A id \in 1..Len(messages) : ParsedParent(id) = textParent[id]
    /\ \A k \in 1..Len(textFields) :
          \E i \in 1..Len(messages[textFields[k].msg].Field) :
              /\ messages[textFields[k].msg].Field[i].Number = textFields[k].Number
              /\ messages[textFields[k].msg].Field[i].OneOfIndex = textFields[k].oneof
    /\ \A id \in 1..Len(messages) : \A i \in 1..Len(messages[id].Field) :
          messages[id].Field[i].OneOfIndex # NoOneof =>
              messages[id].Field[i].OneOfIndex[1] < Len(messages[id].OneOfDecl)

\* C21 as stated: when compareEnums reports a match the confidence is
\* matching / max(|A|, |B|) * 100, it is 100 exactly when the two name ->
\* number mappings are identical and below 100 when one mapping strictly
\* contains the other; when it reports no match the confidence is 0.
C21_ConfidenceIsMatchingOverLarger ==
    enumPc \in {"compared", "swapped"} =>
        LET a == Entries(enumA)
            b == Entries(enumB)
        IN /\ enumRes.isMatch =>
                /\ enumRes.confidence =
                      FracMul(Frac(Cardinality(a \cap b), Max(Cardinality(a), Cardinality(b))),
                              Int2F(100))
                /\ FracEq(enumRes.confidence, Int2F(100)) <=> a = b
                /\ ((a \subseteq b \/ b \subseteq a) /\ a # b) =>
                      FracGt(Int2F(100), enumRes.confidence)
           /\ ~enumRes.isMatch => enumRes.confidence = Int2F(0)

\* the highest confidence with which compareEnums matches e against an enum
\* of the message r
BestConfidence(e, r) ==
    LET found ==
            {compareEnums(e, f).confidence :
                f \in {g \in EnumsIn(r) : compareEnums(e, g).isMatch}}
    IN CHOOSE c \in found : \A d \in found : FracGeq(c, d)

\* the float64 x is the exact value mean up to two units in the last place
NearMean(x, mean) ==
    LET nearest == RoundF64(NatLimbs(mean.n), mean.d, 0)
    IN /\ x.e = nearest.e
       /\ F64Leq(x, [m |-> LimbsAdd(nearest.m, <<2>>, 0), e |-> x.e])
       /\ F64Leq(nearest, [m |-> LimbsAdd(x.m, <<2>>, 0), e |-> x.e])

\* C22: in every emitted match there is exactly one EnumMatch for each enum
\* of the obfuscated message, its confidence is the highest confidence of
\* compareEnums against the matching enums of the accepted candidate, the
\* MatchPercent is the mean of these confidences (as a float64 sum divided
\* by their number), and it is 100 exactly when every obfuscated enum has an
\* enum with the same name -> number mapping in the candidate.
C22_MeanOfBestEnumConfidences ==
    \A i \in DOMAIN emMatches :
        LET o == EnumObfMessage(emPairs[i].o)
            r == EnumRefMessage(emPairs[i].r)
            obfsEnums == getAllEnums(o, <<>>)
            ems == emMatches[i].EnumMatches
        IN /\ Len(ems) = Cardinality(DOMAIN obfsEnums)
           /\ \A path \in DOMAIN obfsEnums : \E k \in DOMAIN ems : ems[k].ObfuscatedEnum = path
           /\ \A k \in DOMAIN ems :
                 ems[k].Confidence = BestConfidence(obfsEnums[ems[k].ObfuscatedEnum], r)
           /\ NearMean(emMatches[i].MatchPercent,
                       FracDiv(SumOfScores([k \in DOMAIN ems |->
                                   BestConfidence(obfsEnums[ems[k].ObfuscatedEnum], r)]),
                               Int2F(Len(ems))))
           /\ emMatches[i].MatchPercent = F64OfNat(100) <=>
                 \A e \in EnumsIn(o) : \E f \in EnumsIn(r) : Entries(e) = Entries(f)

\* C22 witness: a returned match with three enum matches of different
\* confidences, and one whose enum has two matching enums of different
\* confidences in the candidate
C22_Witness ==
    /\ emPc = "returned"
    /\ \E i \in DOMAIN emMatches :
          /\ Len(emMatches[i].EnumMatches) = 3
          /\ emMatches[i].MatchPercent # F64OfNat(100)
    /\ \E i \in DOMAIN emMatches :
          /\ emMatches[i].MatchPercent = F64OfNat(100)
          /\ \E e \in EnumsIn(EnumObfMessage(emPairs[i].o)) :
                \E f \in EnumsIn(EnumRefMessage(emPairs[i].r)) :
                   LET res == compareEnums(e, f)
                   IN res.isMatch /\ FracGt(Int2F(100), res.confidence)

\* the paths of the enums of a message in the order of their declaration:
\* its own enums, then those of each nested message in turn
RECURSIVE EnumOrder(_, _)
RECURSIVE NestedEnumOrder(_, _, _)
NestedEnumOrder(msg, path, k) ==
    IF k = 0 THEN <<>>
    ELSE NestedEnumOrder(msg, path, k - 1)
            \o EnumOrder(msg.NestedType[k], Append(path, msg.NestedType[k].Name))

EnumOrder(msg, path) ==
    [i \in DOMAIN msg.EnumType |-> Append(path, msg.EnumType[i].Name)]
        \o NestedEnumOrder(msg, path, Len(msg.NestedType))

\* C23 as stated: the OriginalEnum of every enum match is the first enum, in
\* the candidate's enum order, among those that match the obfuscated enum
\* with the recorded (highest) confidence; whatever the order in which a run
\* visits the enum maps, it records the same enum matches in the same order.
C23_TiesBrokenByFirstSeen ==
    /\ \A i \in DOMAIN emMatches :
          LET o == EnumObfMessage(emPairs[i].o)
              r == EnumRefMessage(emPairs[i].r)
              obfsEnums == getAllEnums(o, <<>>)
              unobsEnums == getAllEnums(r, <<>>)
              order == EnumOrder(r, <<r.Name>>)
          IN \A k \in DOMAIN emMatches[i].EnumMatches :
                LET em == emMatches[i].EnumMatches[k]
                    tied == {j \in DOMAIN order :
                                LET res == compareEnums(obfsEnums[em.ObfuscatedEnum],
                                                        unobsEnums[order[j]])
                                IN res.isMatch /\ res.confidence = em.Confidence}
                IN /\ tied # {}
                   /\ em.OriginalEnum = order[CHOOSE j \in tied : \A l \in tied : j <= l]
    /\ \A i \in DOMAIN emMatches :
          LET obfsEnums == getAllEnums(EnumObfMessage(emPairs[i].o), <<>>)
              unobsEnums == getAllEnums(EnumRefMessage(emPairs[i].r), <<>>)
          IN \A inner \in [DOMAIN obfsEnums -> IterationOrders(DOMAIN unobsEnums)] :
             \A outer \in IterationOrders(DOMAIN obfsEnums) :
                scanObfsEnums([obfsPath \in DOMAIN obfsEnums |->
                                  scanUnobsEnums(obfsPath, obfsEnums[obfsPath], unobsEnums,
                                                 inner[obfsPath], Len(inner[obfsPath]))],
                              outer, Len(outer)).enumMatches
                    = emMatches[i].EnumMatches

\* what the reference descriptor alone gives an obfuscated message: the
\* position of the first reference message that satisfies the acceptance
\* test, 0 when none does
SoloOutcome(o) ==
    LET satisfying == {j \in DOMAIN emUnobfuscated.MessageType : Satisfies(o, EnumRefMessage(j))}
    IN IF satisfying = {} THEN 0 ELSE CHOOSE j \in satisfying : \A l \in satisfying : j <= l

\* C29: the match of every obfuscated message that FindEnumBasedMatches has
\* handled is the one the message gets from the reference descriptor alone,
\* whatever the other obfuscated messages are and whatever was matched
\* before; every candidate tried is tried whether or not it is matched.
C29_OutcomeDependsOnMessageAlone ==
    /\ \A k \in 1..Min(emObsIdx - 1, Len(emObfuscated.MessageType)) :
          LET solo == SoloOutcome(EnumObfMessage(k))
          IN \A j \in DOMAIN emUnobfuscated.MessageType :
                ([o |-> k, r |-> j] \in Range(emPairs)) <=> j = solo
    /\ \A t \in Range(emTried) :
          t.accepted <=> Satisfies(EnumObfMessage(t.o), EnumRefMessage(t.r))

\* C29 witness: a call returned two matches of different obfuscated messages
\* with the same reference message
C29_Witness ==
    /\ emPc = "returned"
    /\ \E i, j \in DOMAIN emPairs :
          /\ emPairs[i].o # emPairs[j].o
          /\ emPairs[i].r = emPairs[j].r
          /\ emMatches[i].OriginalMsg = emMatches[j].OriginalMsg

\* the enum declarations of a message tree, each with the names on the way
\* to it
RECURSIVE DeclaredEnums(_, _)
DeclaredEnums(msg, path) ==
    {<<Append(path, msg.EnumType[i].Name), msg.EnumType[i]>> : i \in DOMAIN msg.EnumType}
        \cup UNION {DeclaredEnums(msg.NestedType[i], Append(path, msg.NestedType[i].Name)) :
                        i \in DOMAIN msg.NestedType}

\* the number of enum declarations of a message tree
RECURSIVE CountEnumsUpTo(_, _)
CountEnums(msg) == Len(msg.EnumType) + CountEnumsUpTo(msg, Len(msg.NestedType))
CountEnumsUpTo(msg, k) ==
    IF k = 0 THEN 0 ELSE CountEnumsUpTo(msg, k - 1) + CountEnums(msg.NestedType[k])

\* no two enums and no two nested messages of one message have the same name
RECURSIVE SiblingsUnique(_)
SiblingsUnique(msg) ==
    /\ \A i, j \in DOMAIN msg.EnumType : msg.EnumType[i].Name = msg.EnumType[j].Name => i = j
    /\ \A i, j \in DOMAIN msg.NestedType :
          msg.NestedType[i].Name = msg.NestedType[j].Name => i = j
    /\ \A i \in DOMAIN msg.NestedType : SiblingsUnique(msg.NestedType[i])

\* C24: getAllEnums(msg, "") has a key for the path of every enum declared
\* in msg or in a nested message at any depth, every key is the path of a
\* declaration and holds an enum declared there, every path starts with the
\* name of msg; with unique sibling names there are as many entries as
\* declarations; the enums of the file scope are not among the keys.
C24_AllEnumsKeyedByPath ==
    treePc = "collected" =>
        LET msg == treeDesc.MessageType[1]
            declared == DeclaredEnums(msg, <<msg.Name>>)
        IN /\ \A d \in declared : d[1] \in DOMAIN treeEnums
           /\ \A key \in DOMAIN treeEnums :
                 /\ <<key, treeEnums[key]>> \in declared
                 /\ key[1] = msg.Name
                 /\ Len(key) >= 2
           /\ SiblingsUnique(msg) =>
                 /\ Cardinality(DOMAIN treeEnums) = CountEnums(msg)
                 /\ \A d \in declared : treeEnums[d[1]] = d[2]
           /\ \A i \in DOMAIN treeDesc.EnumType :
                 <<treeDesc.EnumType[i].Name>> \notin DOMAIN treeEnums

\* C24 witness: enums collected from a message, from a nested message and
\* from a message nested in that one, all sibling names unique, beside an
\* enum of the file scope
C24_Witness ==
    /\ treePc = "collected"
    /\ treeDesc.EnumType # <<>>
    /\ SiblingsUnique(treeDesc.MessageType[1])
    /\ \E short, mid, long \in DOMAIN treeEnums :
          Len(short) = 2 /\ Len(mid) = 3 /\ Len(long) = 4
    /\ Cardinality(DOMAIN treeEnums) >= 5

\* the position of an obfuscated message in its descriptor
DeclaredAt(o) ==
    CHOOSE i \in DOMAIN obfuscated.MessageType : obfuscated.MessageType[i] = o

\* C25: the output is in discovery order. A step of a call changes the match
\* list only by appending one match, for the message under examination, so
\* that the matches of the earlier passes (the first passStartMatches entries)
\* stay in front of those of the current pass; the matches of one pass are in
\* the declaration order of their obfuscated messages.
C25_DiscoveryOrder ==
    /\ [](/\ Len(pairs) = Len(matches)
          /\ passStartMatches <= Len(matches) \/ pc \in {"idle", "loop"}
          /\ \A i \in DOMAIN matches :
               /\ matches[i].ObfuscatedMsg = pairs[i].o.Name
               /\ matches[i].OriginalMsg = pairs[i].r.Name
          /\ pc = "scan" =>
               \A i, j \in (passStartMatches + 1)..Len(matches) :
                  i < j => DeclaredAt(pairs[i].o) < DeclaredAt(pairs[j].o))
    /\ [][(pc = "scan" /\ matches' # matches) =>
             /\ obsIdx <= Len(unmatchedObs)
             /\ Len(matches') = Len(matches) + 1
             /\ SubSeq(matches', 1, Len(matches)) = matches
             /\ matches'[Len(matches')].ObfuscatedMsg = unmatchedObs[obsIdx].Name
             /\ passStartMatches' = passStartMatches
             /\ passes' = passes
         ]_vars

\* C25 witness: a call returned two matches, the first of them, found in the
\* first pass, for the message declared second: the output is neither in
\* declaration order nor sorted by name
C25_Witness ==
    /\ pc = "returned"
    /\ Len(matches) = 2
    /\ passes = 3
    /\ DeclaredAt(pairs[1].o) > DeclaredAt(pairs[2].o)
    /\ pairs[1].o.Name # pairs[2].o.Name

\* s is an initial part of t
IsPrefix(s, t) == Len(s) <= Len(t) /\ SubSeq(t, 1, Len(s)) = s

\* C26: matches are final once emitted. Every step inside a call leaves the
\* match list an extension of its previous value, the sets of marked
\* obfuscated and reference names supersets of their previous values and the
\* enumMatches argument as it was; no emitted match is an entry of enumMatches
\* over again, and the names of every emitted match stay marked.
C26_MatchesAreFinal ==
    /\ [](/\ \A i \in DOMAIN matches : \A j \in DOMAIN enumMatches :
               ~(/\ matches[i].ObfuscatedMsg = enumMatches[j].ObfuscatedMsg
                 /\ matches[i].OriginalMsg = enumMatches[j].OriginalMsg)
          /\ \A i \in DOMAIN matches :
               /\ matches[i].ObfuscatedMsg \in matchedObfuscated
               /\ matches[i].OriginalMsg \in matchedUnobfuscated)
    /\ [][(pc = "loop" \/ pc = "scan") =>
             /\ IsPrefix(matches, matches')
             /\ Len(matches') <= Len(matches) + 1
             /\ matchedObfuscated \subseteq matchedObfuscated'
             /\ matchedUnobfuscated \subseteq matchedUnobfuscated'
             /\ enumMatches' = enumMatches
             /\ obfuscated' = obfuscated
             /\ unobfuscated' = unobfuscated
         ]_vars

\* C26 witness: a call given an enum match between two messages of its
\* descriptors has returned after emitting a match for another message
C26_Witness ==
    /\ pc = "returned"
    /\ run = 1
    /\ matches # <<>>
    /\ \E j \in DOMAIN enumMatches :
         /\ enumMatches[j].ObfuscatedMsg \in {o.Name : o \in ObfMessages}
         /\ enumMatches[j].OriginalMsg \in {r.Name : r \in RefMessages}

\* no two messages of the sequence have the same name
UniqueNames(msgs) ==
    \A i, j \in DOMAIN msgs : msgs[i].Name = msgs[j].Name => i = j

\* C27: when the top-level message names are unique within each descriptor,
\* no obfuscated message name and no reference message name occurs in two
\* matches, at any point of any pass.
C27_PartialInjection ==
    (UniqueNames(obfuscated.MessageType) /\ UniqueNames(unobfuscated.MessageType)) =>
        \A i, j \in DOMAIN matches :
            (\/ matches[i].ObfuscatedMsg = matches[j].ObfuscatedMsg
             \/ matches[i].OriginalMsg = matches[j].OriginalMsg) => i = j

\* C27 witness: descriptors with unique names, two matches emitted in two
\* passes, the reference message matched first being a perfect match of the
\* obfuscated message matched second as well
C27_Witness ==
    /\ pc = "returned"
    /\ UniqueNames(obfuscated.MessageType)
    /\ UniqueNames(unobfuscated.MessageType)
    /\ Len(matches) = 2
    /\ passes = 3
    /\ PerfectPair(pairs[2].o, pairs[1].r)

\* the names marked when the current pass began
StartMarkedObf ==
    markObfuscated(enumMatches) \cup {pairs[i].o.Name : i \in 1..passStartMatches}
StartMarkedRef ==
    markUnobfuscated(enumMatches) \cup {pairs[i].r.Name : i \in 1..passStartMatches}
\* the positions of the perfect candidates a message had when the pass began
StartCandidates(o) ==
    {j \in DOMAIN unobfuscated.MessageType :
        /\ unobfuscated.MessageType[j].Name \notin StartMarkedRef
        /\ PerfectPair(o, unobfuscated.MessageType[j])}
\* the positions of the unmatched obfuscated messages whose only perfect
\* candidate, when the pass began, was the reference message at position j
Sharing(j) ==
    {k \in DOMAIN obfuscated.MessageType :
        /\ obfuscated.MessageType[k].Name \notin StartMarkedObf
        /\ StartCandidates(obfuscated.MessageType[k]) = {j}}
Least(S) == CHOOSE k \in S : \A l \in S : k <= l

\* C28: when a pass has examined all its messages, for every reference
\* message r that was the only perfect candidate of two or more unmatched
\* obfuscated messages when the pass began, the first of these in declaration
\* order has been matched to r in this pass; and no reference message is ever
\* matched to two obfuscated messages.
C28_FirstSharerTakesCandidate ==
    /\ (pc = "scan" /\ obsIdx > Len(unmatchedObs)) =>
          \A j \in DOMAIN unobfuscated.MessageType :
             Cardinality(Sharing(j)) >= 2 =>
                \E i \in (passStartMatches + 1)..Len(pairs) :
                   /\ pairs[i].o = obfuscated.MessageType[Least(Sharing(j))]
                   /\ pairs[i].r = unobfuscated.MessageType[j]
    /\ \A i, j \in DOMAIN pairs : pairs[i].r = pairs[j].r => i = j

\* the messages that declare no oneof
DeclaresNoOneof(m) == m.OneOfDecl = <<>>
NoOneofMsgs == {m \in StructMsgs : DeclaresNoOneof(m)}
\* the result of compareMessageStructures is a perfect match
PerfectResult(res) == res.isMatch /\ res.confidence = Int2F(100)

\* C30: among the messages that declare no oneof the perfect-match relation
\* is symmetric (perfect(A, B) implies perfect(B, A)) and transitive
\* (perfect(A, B) and perfect(B, c) imply perfect(A, c)); a message without
\* a oneof and a message that declares one are never a perfect match, in
\* either order.
C30_PerfectSymmetricTransitiveWithoutOneofs ==
    structPc = "compared" =>
        /\ (DeclaresNoOneof(structA) # DeclaresNoOneof(structB)) =>
              /\ ~PerfectResult(structRes)
              /\ ~isPerfectStructureMatch(structB, structA)
        /\ (DeclaresNoOneof(structA) /\ DeclaresNoOneof(structB)
                /\ PerfectResult(structRes)) =>
              /\ isPerfectStructureMatch(structB, structA)
              /\ \A c \in NoOneofMsgs :
                    isPerfectStructureMatch(structB, c) =>
                        isPerfectStructureMatch(structA, c)

\* C30 witness: two different messages without oneofs, of two fields and a
\* nested message, were compared and are a perfect match, and a third message
\* is a perfect match of the second
C30_Witness ==
    /\ structPc = "compared"
    /\ DeclaresNoOneof(structA)
    /\ DeclaresNoOneof(structB)
    /\ structA # structB
    /\ Len(structA.Field) = 2
    /\ structA.NestedType # <<>>
    /\ PerfectResult(structRes)
    /\ \E c \in NoOneofMsgs \ {structA, structB} : isPerfectStructureMatch(structB, c)

====
